---------------------------- MODULE Spec2Model ----------------------------
(***************************************************************************)
(* PaperGen: the citation consistency engine (src/src/utils.py).           *)
(*                                                                         *)
(* A text is a sequence of one-character strings, so that the regular      *)
(* expressions of the source are modelled by what they match, character    *)
(* by character.  A JSON value (the Document handed to clean_references)   *)
(* is a tagged node: a string, an integer, null, a list or a dictionary    *)
(* with ordered keys, so that the recursive walks of the source are        *)
(* modelled on the same tree shape they run on.                            *)
(***************************************************************************)
EXTENDS Integers, Sequences, FiniteSets, TLC

VARIABLES
    data,       \* clean_references: the Document as it is now
    orig,       \* clean_references: the Document as given to the first call
    first,      \* clean_references: the Document after the first call
    calls,      \* clean_references: number of calls applied so far
    line,       \* extract_citations: the argument
    citations,  \* extract_citations: the returned list (of texts)
    xdone,      \* extract_citations: has it returned
    results,    \* remove_duplicates: the argument
    unique_results, \* remove_duplicates: the returned list
    ddone,      \* remove_duplicates: has it returned
    lock,           \* fetch client: the caller holding _lock, or NoCaller
    waiters,        \* fetch client: the callers queued on _lock, oldest first
    elapsed_class,  \* fetch client: ticks since the class attribute
                    \*   _last_request_time was set
    instance_attr,  \* fetch client: per client, has self._last_request_time
                    \*   been assigned on the instance
    elapsed_self,   \* fetch client: per client, ticks since that assignment
    max_retries,    \* fetch client: per client, self.max_retries
    client,         \* query: per caller, the client (self) it calls
    queries,        \* query: per caller, the argument queries
    qi,             \* query: per caller, index of the query being served
    phase,          \* query: per caller, "search" or "batch" request
    paper_ids,      \* query: per caller, the ids found by the search
    query_results,  \* query: per caller, the dictionary results
    outcome,        \* query: per caller, "running", "returned" or the
                    \*   exception that left query
    pc,             \* _request_with_backoff: per caller, where it is
    attempt,        \* _request_with_backoff: per caller, the loop variable
    timer,          \* _request_with_backoff: per caller, ticks left of the
                    \*   asyncio.sleep it is in
    delay,          \* _request_with_backoff: per caller, the backoff delay
                    \*   computed last
    sleeps,         \* history: per caller, backoff sleeps of the request
    ret,            \* _request_with_backoff: per caller, the value returned
    search_body,    \* server: the ids a search answers with status 200
    catalog,        \* server: per paper id, the entry the batch endpoint
                    \*   answers with status 200
    sent,           \* history: per caller, attempts dispatched for the request
    since_dispatch, \* history: per client, ticks since its last dispatch
    since_any,      \* history: ticks since the last dispatch of any client
    gap,            \* history: per client, ticks between its last two
                    \*   dispatches
    gap_any,        \* history: ticks between the last two dispatches
    served,         \* history: per caller, how the search of each served
                    \*   query returned
    number_to_ref,  \* ReferenceManager: number -> {"raw": text}
    ref_to_number,  \* ReferenceManager: text -> number
    next_number,    \* ReferenceManager: the next number to assign
    raw_added,      \* history: the raw reference strings added so far
    pstep,          \* process_topic: where it is
    article,        \* process_topic: the Document it works on
    cleaned,        \* history: article is the output of clean_references,
                    \*   with no content merged since
    saved,          \* history: the Document snapshots written by save_results
    presult,        \* process_topic: what it returned
    task,           \* main: where each bound_process task is
    semaphore,      \* main: the value of the semaphore
    sem_waiters,    \* main: the tasks waiting in semaphore.acquire, oldest first
    main_pc,        \* main: where main is
    columns,        \* main: the columns of the conditions table
    logger,         \* retry_with_backoff: a logger was passed
    retry_max,      \* retry_with_backoff: max_retries
    retry_pc,       \* retry_with_backoff: where the coroutine is
    retry_attempt,  \* retry_with_backoff: attempt
    func_calls,     \* retry_with_backoff: history, calls of func so far
    retry_delay,    \* retry_with_backoff: delay of the last sleep
    last_exc,       \* retry_with_backoff: the exception func raised last
    retry_outcome,  \* retry_with_backoff: what it returned or raised
    chunk_content,  \* integrate_uptodate_content: chunk['content']
    chunk_refs,     \* integrate_uptodate_content: old numbers of chunk_references
    next_ref_number,    \* integrate_uptodate_content: next_ref_number
    old_to_new_ref_map, \* integrate_uptodate_content: old_to_new_ref_map
    updated_content,    \* integrate_uptodate_content: updated_content
    chunk_done      \* integrate_uptodate_content: the chunk was processed

vars == <<data, orig, first, calls, line, citations, xdone,
          results, unique_results, ddone,
          lock, waiters, elapsed_class, instance_attr, elapsed_self,
          max_retries, client, queries, qi, phase, paper_ids, query_results,
          outcome, pc, attempt, timer, delay, sleeps, ret, sent,
          search_body, catalog,
          since_dispatch, since_any, gap, gap_any, served,
          number_to_ref, ref_to_number, next_number, raw_added,
          pstep, article, cleaned, saved, presult,
          task, semaphore, sem_waiters, main_pc, columns,
          logger, retry_max, retry_pc, retry_attempt, func_calls, retry_delay,
          last_exc, retry_outcome,
          chunk_content, chunk_refs, next_ref_number, old_to_new_ref_map,
          updated_content, chunk_done>>

cleanVars   == <<data, orig, first, calls>>
extractVars == <<line, citations, xdone>>
dedupVars   == <<results, unique_results, ddone>>
throttleVars == <<lock, waiters, elapsed_class, instance_attr, elapsed_self,
                  since_dispatch, since_any, gap, gap_any>>
requestVars == <<pc, attempt, timer, delay, sleeps, ret, sent>>
queryVars   == <<max_retries, client, queries, qi, phase, paper_ids,
                 query_results, outcome, served, search_body, catalog>>
fetchVars   == <<throttleVars, requestVars, queryVars>>
managerVars == <<number_to_ref, ref_to_number, next_number, raw_added>>
pipelineVars == <<pstep, article, cleaned, saved, presult>>
mainVars == <<task, semaphore, sem_waiters, main_pc, columns>>
retryVars == <<logger, retry_max, retry_pc, retry_attempt, func_calls,
               retry_delay, last_exc, retry_outcome>>
chunkVars == <<chunk_content, chunk_refs, next_ref_number, old_to_new_ref_map,
               updated_content, chunk_done>>

-----------------------------------------------------------------------------
(* Bounds of the model *)

MaxCalls == 2      \* calls of clean_references on one Document
MaxRefs == 2       \* Reference Items in the References section
MaxLineLen == 6    \* characters of a line given to extract_citations
MaxResults == 4    \* records given to remove_duplicates
MantissaBits == 2  \* significand bits of a float (53 in binary64)
TicksPerSecond == 2  \* readings of the clock in one second
MaxRetries == 4    \* self.max_retries of the client of SpecFetch
MaxRetriesThrottle == 2  \* self.max_retries of the clients of SpecThrottle
MaxBatch == 2      \* references given to one add_references or add_papers
NumTopics == 6     \* rows of the CSV file that main schedules
MaxRetriesBackoff == 6  \* the largest max_retries given to retry_with_backoff
MaxChunkMarkers == 2    \* bracketed spans in the content of one chunk

-----------------------------------------------------------------------------
(* Texts: Python str, as sequences of characters *)

Digits == <<"0", "1", "2", "3", "4", "5", "6", "7", "8", "9">>

DigitChars == {Digits[i] : i \in 1..10}

\* str.isdigit on the model's alphabet (ASCII digits only)
IsDigit(t) == Len(t) > 0 /\ \A i \in 1..Len(t) : t[i] \in DigitChars

DigitVal(c) == (CHOOSE i \in 1..10 : Digits[i] = c) - 1

\* int(t) for a text of digits
RECURSIVE IntOf(_)
IntOf(t) == IF Len(t) = 0 THEN 0
          ELSE 10 * IntOf(SubSeq(t, 1, Len(t) - 1)) + DigitVal(t[Len(t)])

\* str(n) for n >= 0
RECURSIVE StrOf(_)
StrOf(n) == IF n < 10 THEN <<Digits[n + 1]>>
          ELSE StrOf(n \div 10) \o <<Digits[(n % 10) + 1]>>

\* str.strip(): the model's only whitespace is the blank
RECURSIVE LStrip(_)
LStrip(t) == IF Len(t) > 0 /\ t[1] = " " THEN LStrip(Tail(t)) ELSE t

RECURSIVE RStrip(_)
RStrip(t) == IF Len(t) > 0 /\ t[Len(t)] = " "
             THEN RStrip(SubSeq(t, 1, Len(t) - 1)) ELSE t

Strip(t) == RStrip(LStrip(t))

\* index of the first c in t at or after position i, 0 if there is none
RECURSIVE Find(_, _, _)
Find(t, c, i) == IF i > Len(t) THEN 0
                 ELSE IF t[i] = c THEN i
                 ELSE Find(t, c, i + 1)

\* str.split(c): never empty, keeps empty parts
RECURSIVE Split(_, _)
Split(t, c) == LET j == Find(t, c, 1)
               IN  IF j = 0 THEN <<t>>
                   ELSE <<SubSeq(t, 1, j - 1)>> \o Split(SubSeq(t, j + 1, Len(t)), c)

\* sep.join(parts): the characters of sep between the parts
RECURSIVE Join(_, _)
Join(parts, sep) == IF Len(parts) = 0 THEN <<>>
                    ELSE IF Len(parts) = 1 THEN parts[1]
                    ELSE parts[1] \o sep \o Join(Tail(parts), sep)

RECURSIVE Concat(_)
Concat(parts) == IF Len(parts) = 0 THEN <<>>
                 ELSE parts[1] \o Concat(Tail(parts))

\* [x for x in s if P(x)]
RECURSIVE SelectTexts(_, _)
SelectTexts(s, keep) == IF Len(s) = 0 THEN <<>>
                        ELSE (IF keep[1] THEN <<s[1]>> ELSE <<>>)
                             \o SelectTexts(Tail(s), Tail(keep))

\* range(a, b + 1) as texts
RECURSIVE RangeTexts(_, _)
RangeTexts(a, b) == IF a > b THEN <<>>
                    ELSE <<StrOf(a)>> \o RangeTexts(a + 1, b)

-----------------------------------------------------------------------------
(* The two bracket patterns of the source *)

\* re.findall(r"\[(.*?)\]", t): leftmost, lazy, non-overlapping; the
\* interior may be empty.  Returns the interiors.
RECURSIVE FindAllLazy(_, _)
FindAllLazy(t, i) ==
    LET o == Find(t, "[", i)
        c == IF o = 0 THEN 0 ELSE Find(t, "]", o + 1)
    IN  IF o = 0 \/ c = 0 THEN <<>>
        ELSE <<SubSeq(t, o + 1, c - 1)>> \o FindAllLazy(t, c + 1)

\* the matches of r"\[([^\]]+)\]" in t from position i on, as segments:
\* [m |-> TRUE, s |-> interior] for a match, [m |-> FALSE, s |-> text]
\* for the text between matches.  The interior is never empty: at "[]"
\* the pattern fails and the scan moves on by one character.  With no "["
\* or no "]" after it, nothing more matches.
RECURSIVE Segments(_, _)
Segments(t, i) ==
    IF i > Len(t) THEN <<>>
    ELSE LET o == Find(t, "[", i)
             c == IF o = 0 THEN 0 ELSE Find(t, "]", o + 1)
         IN  IF o = 0 \/ c = 0
             THEN <<[m |-> FALSE, s |-> SubSeq(t, i, Len(t))]>>
             ELSE IF c = o + 1
             THEN <<[m |-> FALSE, s |-> SubSeq(t, i, o)]>> \o Segments(t, o + 1)
             ELSE (IF o > i THEN <<[m |-> FALSE, s |-> SubSeq(t, i, o - 1)]>> ELSE <<>>)
                  \o <<[m |-> TRUE, s |-> SubSeq(t, o + 1, c - 1)]>>
                  \o Segments(t, c + 1)

\* re.match(r"^\d+([,-]\d+)*$", t)
IsCitationInterior(t) ==
    /\ Len(t) > 0
    /\ \A i \in 1..Len(t) : t[i] \in DigitChars \cup {",", "-"}
    /\ t[1] \in DigitChars
    /\ t[Len(t)] \in DigitChars
    /\ \A i \in 1..(Len(t) - 1) : t[i] \in DigitChars \/ t[i + 1] \in DigitChars

-----------------------------------------------------------------------------
(* Citation Parser *)

\* ExpandPart with range(start, end): the upper end left out
ExpandPart_EndExclusive(part) ==
    IF Find(part, "-", 1) # 0
    THEN LET range_parts == Split(part, "-")
         IN  IF Len(range_parts) = 2
             THEN IF IsDigit(Strip(range_parts[1])) /\ IsDigit(Strip(range_parts[2]))
                  THEN RangeTexts(IntOf(Strip(range_parts[1])), IntOf(Strip(range_parts[2])) - 1)
                  ELSE <<>>
             ELSE <<>>
    ELSE <<Strip(part)>>

\* one part of the loop of expand_citation_ranges
ExpandPart(part) ==
    IF Find(part, "-", 1) # 0
    THEN LET range_parts == Split(part, "-")
         IN  IF Len(range_parts) = 2
             THEN IF IsDigit(Strip(range_parts[1])) /\ IsDigit(Strip(range_parts[2]))
                  THEN RangeTexts(IntOf(Strip(range_parts[1])), IntOf(Strip(range_parts[2])))
                  ELSE <<>>   \* ValueError: skipped
             ELSE <<>>        \* unexpected range format: skipped
    ELSE <<Strip(part)>>

RECURSIVE ExpandParts(_)
ExpandParts(parts) == IF Len(parts) = 0 THEN <<>>
                      ELSE ExpandPart(parts[1]) \o ExpandParts(Tail(parts))

expand_citation_ranges(citation) == ExpandParts(Split(citation, ","))

RECURSIVE ExtractFrom(_)
ExtractFrom(matches) ==
    IF Len(matches) = 0 THEN <<>>
    ELSE (IF IsCitationInterior(matches[1])
          THEN expand_citation_ranges(matches[1]) ELSE <<>>)
         \o ExtractFrom(Tail(matches))

extract_citations(t) == ExtractFrom(FindAllLazy(t, 1))


-----------------------------------------------------------------------------
(* JSON values: what json.loads gives clean_references *)

JStr(t) == [k |-> "str", s |-> t]

JInt(i) == [k |-> "int", n |-> i]

JNull == [k |-> "null"]

JList(items) == [k |-> "list", vals |-> items]

JDict(ks, vs) == [k |-> "dict", keys |-> ks, vals |-> vs]

\* key in d
HasKey(d, key) == d.k = "dict" /\ \E i \in 1..Len(d.keys) : d.keys[i] = key

\* d[key], for a key that is there
Item(d, key) == d.vals[CHOOSE i \in 1..Len(d.keys) : d.keys[i] = key]

\* d.get(key)
Get(d, key) == IF HasKey(d, key) THEN Item(d, key) ELSE JNull

\* d[key] = v, for a key that is there
SetItem(d, key, v) ==
    [d EXCEPT !.vals = [i \in 1..Len(d.keys) |-> IF d.keys[i] = key THEN v ELSE d.vals[i]]]

\* Python truthiness: not v
Falsy(v) == \/ v.k = "null"
            \/ (v.k = "str" /\ v.s = <<>>)
            \/ (v.k = "int" /\ v.n = 0)
            \/ (v.k \in {"list", "dict"} /\ v.vals = <<>>)

\* the guard the References helpers share:
\* "references" in data and "content" in data["references"]
HasReferences(d) == HasKey(d, "references") /\ HasKey(Item(d, "references"), "content")

\* data["references"]["content"], a sequence of Reference Items
RefContent(d) == Item(Item(d, "references"), "content").vals

SetRefContent(d, items) ==
    SetItem(d, "references", SetItem(Item(d, "references"), "content", JList(items)))

RECURSIVE SelectItems(_, _)
SelectItems(s, keep) == IF Len(s) = 0 THEN <<>>
                        ELSE (IF keep[1] THEN <<s[1]>> ELSE <<>>)
                             \o SelectItems(Tail(s), Tail(keep))

-----------------------------------------------------------------------------
(* Consistency Engine *)

\* get_bad_references without the test of authors
get_bad_references_AuthorsUnchecked(d) ==
    IF HasReferences(d)
    THEN {Item(ref, "reference_number").n : ref \in
             {r \in {RefContent(d)[i] : i \in 1..Len(RefContent(d))} :
                 \/ Falsy(Get(r, "journal_source"))
                 \/ Falsy(Get(r, "year"))}}
    ELSE {}

get_bad_references(d) ==
    IF HasReferences(d)
    THEN {Item(ref, "reference_number").n : ref \in
             {r \in {RefContent(d)[i] : i \in 1..Len(RefContent(d))} :
                 \/ Falsy(Get(r, "journal_source"))
                 \/ Falsy(Get(r, "authors"))
                 \/ Falsy(Get(r, "year"))}}
    ELSE {}

\* identify_all_inline_citations._extract_citations_from_text
ExtractCitationsFromText(t) ==
    LET segs == Segments(t, 1)
    IN  UNION {
          {IntOf(Strip(ref)) : ref \in
              {p \in {Split(segs[i].s, ",")[j] : j \in 1..Len(Split(segs[i].s, ","))} :
                  IsDigit(Strip(p))}}
          : i \in {x \in 1..Len(segs) : segs[x].m}}

\* identify_all_inline_citations._recursive_process: a dictionary passes
\* ("references" in item) to all its values, whatever flag it was given
RECURSIVE IdentifyWalk(_, _)
IdentifyWalk(item, in_references_section) ==
    CASE item.k = "str" ->
           IF in_references_section THEN {} ELSE ExtractCitationsFromText(item.s)
      [] item.k = "dict" ->
           UNION {IdentifyWalk(item.vals[i], HasKey(item, "references"))
                  : i \in 1..Len(item.vals)}
      [] item.k = "list" ->
           UNION {IdentifyWalk(item.vals[i], in_references_section)
                  : i \in 1..Len(item.vals)}
      [] OTHER -> {}

identify_all_inline_citations(d) == IdentifyWalk(d, FALSE)

get_all_reference_numbers(references_section) ==
    IF references_section.k = "dict"
    THEN LET content == IF HasKey(references_section, "content")
                        THEN Item(references_section, "content").vals
                        ELSE <<>>
         IN  {Get(content[i], "reference_number").n :
                 i \in {x \in 1..Len(content) : Get(content[x], "reference_number").k # "null"}}
    ELSE {}

remove_references(d, references_to_remove) ==
    IF HasReferences(d)
    THEN LET content == RefContent(d)
         IN  SetRefContent(d, SelectItems(content,
                 [i \in 1..Len(content) |->
                     Item(content[i], "reference_number").n \notin references_to_remove]))
    ELSE d

\* the replacement remove_inline_citations._process_text makes for one match
RemoveRepl(group, references_to_remove) ==
    LET parts == Split(group, ",")
        Removed(p) == IsDigit(Strip(p)) /\ IntOf(Strip(p)) \in references_to_remove
        Kept(p) == IsDigit(Strip(p)) /\ IntOf(Strip(p)) \notin references_to_remove
        kept == SelectTexts([i \in 1..Len(parts) |-> Strip(parts[i])],
                            [i \in 1..Len(parts) |-> ~Removed(parts[i])])
    IN  IF \E i \in 1..Len(parts) : Kept(parts[i])
        THEN <<"[">> \o Join(kept, <<",">>) \o <<"]">>
        ELSE <<>>

\* remove_inline_citations._process_text
RemoveText(t, references_to_remove) ==
    LET segs == Segments(t, 1)
    IN  Concat([i \in 1..Len(segs) |->
                   IF segs[i].m THEN RemoveRepl(segs[i].s, references_to_remove)
                   ELSE segs[i].s])

\* remove_inline_citations._recursive_process
RECURSIVE RemoveWalk(_, _, _)
RemoveWalk(item, references_to_remove, in_references_section) ==
    CASE item.k = "str" ->
           IF in_references_section THEN item
           ELSE JStr(RemoveText(item.s, references_to_remove))
      [] item.k = "dict" ->
           IF HasKey(item, "references")
           THEN [item EXCEPT !.vals = [i \in 1..Len(item.vals) |->
                    RemoveWalk(item.vals[i], references_to_remove,
                               item.keys[i] = "references")]]
           ELSE [item EXCEPT !.vals = [i \in 1..Len(item.vals) |->
                    RemoveWalk(item.vals[i], references_to_remove,
                               in_references_section)]]
      [] item.k = "list" ->
           [item EXCEPT !.vals = [i \in 1..Len(item.vals) |->
               RemoveWalk(item.vals[i], references_to_remove, in_references_section)]]
      [] OTHER -> item

remove_inline_citations(d, references_to_remove) ==
    RemoveWalk(d, references_to_remove, FALSE)

\* the reference_number values create_remap_dictionary collects, in order
ReferenceNumbers(d) ==
    IF HasReferences(d)
    THEN LET content == RefContent(d)
             has == [i \in 1..Len(content) |-> HasKey(content[i], "reference_number")]
             kept == SelectItems(content, has)
         IN  [i \in 1..Len(kept) |-> Item(kept[i], "reference_number").n]
    ELSE <<>>

\* Insert putting the larger number first: a descending sort
RECURSIVE Insert_Descending(_, _)
Insert_Descending(sorted, x) ==
    IF Len(sorted) = 0 THEN <<x>>
    ELSE IF x > sorted[1] THEN <<x>> \o sorted
    ELSE <<sorted[1]>> \o Insert_Descending(Tail(sorted), x)

\* list.sort() on integers, by insertion
RECURSIVE Insert(_, _)
Insert(sorted, x) ==
    IF Len(sorted) = 0 THEN <<x>>
    ELSE IF x < sorted[1] THEN <<x>> \o sorted
    ELSE <<sorted[1]>> \o Insert(Tail(sorted), x)

RECURSIVE Sorted(_)
Sorted(s) == IF Len(s) = 0 THEN <<>>
             ELSE Insert(Sorted(SubSeq(s, 1, Len(s) - 1)), s[Len(s)])

\* {old: new for new, old in enumerate(numbers, start=1)}: a later entry
\* of the same key replaces the earlier one
RECURSIVE DictOfEnumerate(_, _)
DictOfEnumerate(numbers, upto) ==
    IF upto = 0 THEN <<>>
    ELSE (numbers[upto] :> upto) @@ DictOfEnumerate(numbers, upto - 1)

create_remap_dictionary(d) ==
    LET reference_numbers == Sorted(ReferenceNumbers(d))
    IN  DictOfEnumerate(reference_numbers, Len(reference_numbers))

update_reference_numbers(d, remap) ==
    IF HasReferences(d)
    THEN LET content == RefContent(d)
         IN  SetRefContent(d, [i \in 1..Len(content) |->
                 IF HasKey(content[i], "reference_number")
                 THEN SetItem(content[i], "reference_number",
                              JInt(remap[Item(content[i], "reference_number").n]))
                 ELSE content[i]])
    ELSE d

\* update_inline_citations._process_text._replace_citation
UpdateRepl(group, remap) ==
    LET parts == Split(group, ",")
        Updated(ref) ==
            LET ref_str == Strip(ref)
            IN  IF IsDigit(ref_str)
                THEN IF IntOf(ref_str) \in DOMAIN remap
                     THEN StrOf(remap[IntOf(ref_str)])
                     ELSE ref_str
                ELSE ref_str
    IN  <<"[">> \o Join([i \in 1..Len(parts) |-> Updated(parts[i])], <<",">>) \o <<"]">>

\* update_inline_citations._process_text
UpdateText(t, remap) ==
    LET segs == Segments(t, 1)
    IN  Concat([i \in 1..Len(segs) |->
                   IF segs[i].m THEN UpdateRepl(segs[i].s, remap) ELSE segs[i].s])

\* update_inline_citations._recursive_process
RECURSIVE UpdateWalk(_, _, _)
UpdateWalk(item, remap, in_references_section) ==
    CASE item.k = "str" ->
           IF in_references_section THEN item ELSE JStr(UpdateText(item.s, remap))
      [] item.k = "dict" ->
           IF HasKey(item, "references")
           THEN [item EXCEPT !.vals = [i \in 1..Len(item.vals) |->
                    UpdateWalk(item.vals[i], remap, item.keys[i] = "references")]]
           ELSE [item EXCEPT !.vals = [i \in 1..Len(item.vals) |->
                    UpdateWalk(item.vals[i], remap, in_references_section)]]
      [] item.k = "list" ->
           [item EXCEPT !.vals = [i \in 1..Len(item.vals) |->
               UpdateWalk(item.vals[i], remap, in_references_section)]]
      [] OTHER -> item

update_inline_citations(d, remap) == UpdateWalk(d, remap, FALSE)

check_for_duplicate_references(d) ==
    Len(ReferenceNumbers(d)) #
        Cardinality({ReferenceNumbers(d)[i] : i \in 1..Len(ReferenceNumbers(d))})

\* the sort key of sort_references_ascending orders a before b:
\* x.get("reference_number", float('inf'))
KeyBefore(a, b) ==
    /\ HasKey(a, "reference_number")
    /\ \/ ~HasKey(b, "reference_number")
       \/ Item(a, "reference_number").n < Item(b, "reference_number").n

\* list.sort(key=...) is stable: an item goes behind the items of its key
RECURSIVE InsertItem(_, _)
InsertItem(sorted, x) ==
    IF Len(sorted) = 0 THEN <<x>>
    ELSE IF KeyBefore(x, sorted[1]) THEN <<x>> \o sorted
    ELSE <<sorted[1]>> \o InsertItem(Tail(sorted), x)

RECURSIVE SortItems(_)
SortItems(s) == IF Len(s) = 0 THEN <<>>
                ELSE InsertItem(SortItems(SubSeq(s, 1, Len(s) - 1)), s[Len(s)])

sort_references_ascending(d) ==
    IF HasReferences(d)
    THEN SetRefContent(d, SortItems(RefContent(d)))
    ELSE d

\* clean_references, steps 1 to 4: the Document before it is renumbered
PruneReferences(d) ==
    LET inline_citations == identify_all_inline_citations(d)
        all_reference_numbers == get_all_reference_numbers(
            IF HasKey(d, "references") THEN Item(d, "references") ELSE JDict(<<>>, <<>>))
        orphaned_citations == inline_citations \ all_reference_numbers
        unused_references == all_reference_numbers \ inline_citations
        bad_references == get_bad_references(d)
        d1 == remove_inline_citations(d, orphaned_citations)
        d2 == remove_references(d1, unused_references)
        d3 == remove_references(d2, bad_references)
    IN  remove_inline_citations(d3, bad_references)

\* clean_references, step 5
RenumberReferences(d) ==
    LET remap_dict == create_remap_dictionary(d)
    IN  update_inline_citations(update_reference_numbers(d, remap_dict), remap_dict)

\* step 6 only prints a warning
clean_references(d) == RenumberReferences(PruneReferences(d))

-----------------------------------------------------------------------------
(* Content Deduplicator *)

\* hashlib.md5(content.encode("utf-8")).hexdigest(): MD5 is not computed
\* here; it is taken collision-free on the contents of the model, so a
\* digest stands for exactly one content
Md5Hex(content) == <<"md5">> \o content

RECURSIVE DedupLoop(_, _, _)
DedupLoop(rest, seen, unique) ==
    IF Len(rest) = 0 THEN unique
    ELSE LET content_hash == Md5Hex(rest[1].content)
         IN  IF content_hash \notin seen
             THEN DedupLoop(Tail(rest), seen \cup {content_hash}, Append(unique, rest[1]))
             ELSE DedupLoop(Tail(rest), seen, unique)

\* remove_duplicates keyed on the whole record instead of its content
remove_duplicates_WholeRecord(rs) ==
    LET RECURSIVE Loop(_, _, _)
        Loop(rest, seen, unique) ==
            IF Len(rest) = 0 THEN unique
            ELSE IF rest[1] \notin seen
                 THEN Loop(Tail(rest), seen \cup {rest[1]}, Append(unique, rest[1]))
                 ELSE Loop(Tail(rest), seen, unique)
    IN  Loop(rs, {}, <<>>)

remove_duplicates(rs) == DedupLoop(rs, {}, <<>>)

-----------------------------------------------------------------------------
(* Documents of the model: the Article of src/src/models.py with one       *)
(* section of each content shape that carries text (a string, a list of    *)
(* strings) and the References section                                     *)

Heading_Overview == <<"O", "v", "e", "r", "v", "i", "e", "w">>

Heading_KeyFacts == <<"K", "e", "y", " ", "F", "a", "c", "t", "s">>

Heading_References == <<"R", "e", "f", "e", "r", "e", "n", "c", "e", "s">>

\* a Reference Item; missing names the required field left null, if any;
\* uid is a url_doi that tells the items of one Document apart
ReferenceItem(number, missing, title, uid) ==
    JDict(<<"reference_number", "authors", "year", "title", "journal_source", "url_doi">>,
          << JInt(number),
             IF missing = "authors" THEN JNull ELSE JStr(<<"A">>),
             IF missing = "year" THEN JNull ELSE JInt(2020),
             JStr(title),
             IF missing = "journal_source" THEN JNull ELSE JStr(<<"J">>),
             JStr(uid) >>)

Article(title, overview, key_facts, reference_items) ==
    JDict(<<"title", "overview", "key_facts", "references">>,
          << JStr(title),
             JDict(<<"heading", "content">>, <<JStr(Heading_Overview), JStr(overview)>>),
             JDict(<<"heading", "content">>,
                   <<JStr(Heading_KeyFacts),
                     JList([i \in 1..Len(key_facts) |-> JStr(key_facts[i])])>>),
             JDict(<<"heading", "content">>,
                   <<JStr(Heading_References), JList(reference_items)>>) >>)

\* the tokens a marker of an input Document is made of: reference numbers,
\* a word, a range
InputTokens == {<<"1">>, <<"2">>, <<"3">>, <<"a">>, <<"2", "-", "3">>}

\* markers of one or two tokens
InputMarkers ==
    {<<"[">> \o a \o <<"]">> : a \in InputTokens}
    \cup {<<"[">> \o a \o <<",">> \o b \o <<"]">> : a \in InputTokens, b \in InputTokens}

InputTitles == {<<"T">>, <<"[", "1", "]">>}

InputKeyFacts == {<<>>, << <<"[", "3", "]">> >>}

InputRefTitles == {<<"t">>, <<"[", "3", "]">>}

InputRefNumbers == {1, 3}

InputMissing == {"none", "authors"}

Uid(i) == <<"u", Digits[i + 1]>>

\* References lists of at most MaxRefs items; the title of the first item
\* is plain or a marker, the titles of the others are plain
InputReferenceLists ==
    UNION {
      { [i \in 1..n |-> ReferenceItem(nums[i], miss[i], titles[i], Uid(i))] :
          nums \in [1..n -> InputRefNumbers],
          miss \in [1..n -> InputMissing],
          titles \in {f \in [1..n -> InputRefTitles] :
                         \A i \in 2..n : f[i] = <<"t">>} }
      : n \in 0..MaxRefs}

-----------------------------------------------------------------------------
(* Rate-limited fetch client (src/src/semanticscholar.py): the callers, the *)
(* clients and the state before any call                                    *)

\* the coroutines calling query, and the SemanticScholarAPI instances
Callers == {"c1", "c2"}
Clients == {"s1", "s2"}
NoCaller == "none"

\* what _request_with_backoff returns: None, or the JSON body
ReturnsNone == [ok |-> FALSE, body |-> <<>>]
ReturnsJson(body) == [ok |-> TRUE, body |-> body]

\* the state of the class and of every instance before any call: the lock
\* is free, _last_request_time is the class attribute only
IdleFetch ==
    /\ lock = NoCaller
    /\ waiters = <<>>
    /\ elapsed_class = 0
    /\ instance_attr = [s \in Clients |-> FALSE]
    /\ elapsed_self = [s \in Clients |-> 0]
    /\ max_retries = [s \in Clients |-> 0]
    /\ client = [c \in Callers |-> "s1"]
    /\ queries = [c \in Callers |-> <<>>]
    /\ qi = [c \in Callers |-> 1]
    /\ phase = [c \in Callers |-> "search"]
    /\ paper_ids = [c \in Callers |-> <<>>]
    /\ query_results = [c \in Callers |-> <<>>]
    /\ outcome = [c \in Callers |-> "returned"]
    /\ pc = [c \in Callers |-> "done"]
    /\ attempt = [c \in Callers |-> 0]
    /\ timer = [c \in Callers |-> 0]
    /\ delay = [c \in Callers |-> 0]
    /\ sleeps = [c \in Callers |-> 0]
    /\ ret = [c \in Callers |-> ReturnsNone]
    /\ sent = [c \in Callers |-> 0]
    /\ search_body = <<>>
    /\ catalog = <<>>
    /\ since_dispatch = [s \in Clients |-> 0]
    /\ since_any = 0
    /\ gap = [s \in Clients |-> 0]
    /\ gap_any = 0
    /\ served = [c \in Callers |-> <<>>]

-----------------------------------------------------------------------------
(* ReferenceManager (src/src/reference_manager.py) and process_topic        *)
(* (src/main.py): the state before any call                                 *)

\* ReferenceManager.__init__
NewManager ==
    /\ number_to_ref = <<>>
    /\ ref_to_number = <<>>
    /\ next_number = 1

IdleManager ==
    /\ NewManager
    /\ raw_added = {}

\* main has not started: no task exists
IdleMain ==
    /\ task = <<>>
    /\ semaphore = 0
    /\ sem_waiters = <<>>
    /\ main_pc = "idle"
    /\ columns = {}

\* retry_with_backoff is not called
IdleRetry ==
    /\ logger = FALSE
    /\ retry_max = 0
    /\ retry_pc = "idle"
    /\ retry_attempt = 0
    /\ func_calls = 0
    /\ retry_delay = 0
    /\ last_exc = 0
    /\ retry_outcome = "none"

\* integrate_uptodate_content has no chunk
IdleChunk ==
    /\ chunk_content = <<>>
    /\ chunk_refs = <<>>
    /\ next_ref_number = 1
    /\ old_to_new_ref_map = <<>>
    /\ updated_content = <<>>
    /\ chunk_done = FALSE

IdlePipeline ==
    /\ pstep = "idle"
    /\ article = JNull
    /\ cleaned = FALSE
    /\ saved = <<>>
    /\ presult = JNull

-----------------------------------------------------------------------------
(* clean_references called on a Document, and called again on its result *)

IdleExtract == line = <<>> /\ citations = <<>> /\ xdone = FALSE

IdleDedup == results = <<>> /\ unique_results = <<>> /\ ddone = FALSE

InitClean ==
    /\ \E title \in InputTitles, overview \in InputMarkers \cup {<<>>},
          key_facts \in InputKeyFacts, refs \in InputReferenceLists :
          data = Article(title, overview, key_facts, refs)
    /\ orig = data
    /\ first = data
    /\ calls = 0
    /\ IdleExtract
    /\ IdleDedup
    /\ IdleFetch
    /\ IdleManager
    /\ IdlePipeline
    /\ IdleMain
    /\ IdleRetry
    /\ IdleChunk

CleanReferences ==
    /\ calls < MaxCalls
    /\ data' = clean_references(data)
    /\ first' = IF calls = 0 THEN data' ELSE first
    /\ calls' = calls + 1
    /\ UNCHANGED <<orig, extractVars, dedupVars, fetchVars, managerVars, pipelineVars,
                 mainVars, retryVars, chunkVars>>

\* the caller sorts the References of the Document in place; the Document
\* it has now is the one the next calls of clean_references are given
SortReferences ==
    /\ data' = sort_references_ascending(data)
    /\ orig' = data'
    /\ first' = data'
    /\ calls' = 0
    /\ UNCHANGED <<extractVars, dedupVars, fetchVars, managerVars, pipelineVars,
                 mainVars, retryVars, chunkVars>>

NextClean == CleanReferences \/ SortReferences

SpecClean == InitClean /\ [][NextClean]_vars


-----------------------------------------------------------------------------
(* What a Document says, read off its text independently of the walks of   *)
(* the engine: its text fields outside the References section, the         *)
(* bracketed spans in them, and the numbers their tokens denote            *)

\* the text fields outside the References section, in document order
ContentTexts(d) ==
    LET key_facts == Item(Item(d, "key_facts"), "content").vals
    IN  <<Item(d, "title").s, Item(Item(d, "overview"), "content").s>>
        \o [i \in 1..Len(key_facts) |-> key_facts[i].s]

\* the Reference Items of the References section
RefItems(d) == Item(Item(d, "references"), "content").vals

NumberOf(ref) == Item(ref, "reference_number").n

DeclaredNumbers(d) == {NumberOf(RefItems(d)[i]) : i \in 1..Len(RefItems(d))}

\* a Reference Item lacking authors, year or journal_source
IsBadItem(ref) ==
    \E f \in {"authors", "year", "journal_source"} :
        ~HasKey(ref, f) \/ Item(ref, f).k = "null"

\* where a bracketed span starts: an opening bracket with a closing one
\* after it, not inside a span that started further left
SpanStarts(t) ==
    {i \in 1..Len(t) :
        /\ t[i] = "["
        /\ \E j \in (i + 1)..Len(t) : t[j] = "]"
        /\ ~\E h \in 1..(i - 1) :
              t[h] = "[" /\ \A m \in (h + 1)..(i - 1) : t[m] # "]"}

SpanEnd(t, i) ==
    CHOOSE j \in (i + 1)..Len(t) :
        t[j] = "]" /\ \A m \in (i + 1)..(j - 1) : t[m] # "]"

\* the comma-separated tokens of the spans of t, blanks stripped, each with
\* the position it starts at
SpanTokens(t) ==
    UNION {
      LET inner == SubSeq(t, i + 1, SpanEnd(t, i) - 1)
          commas == {0, Len(inner) + 1} \cup {c \in 1..Len(inner) : inner[c] = ","}
      IN  { [pos |-> i + a + 1, tok |-> Strip(SubSeq(inner, a + 1, b - 1))] :
              <<a, b>> \in {ab \in commas \X commas :
                  ab[1] < ab[2] /\ \A c \in commas : c <= ab[1] \/ c >= ab[2]} }
      : i \in SpanStarts(t)}

\* the numbers a token denotes: itself, or a..b for a range a-b
Denotes(tok) ==
    IF IsDigit(tok) THEN {IntOf(tok)}
    ELSE LET dashes == {h \in 1..Len(tok) : tok[h] = "-"}
         IN  IF Cardinality(dashes) = 1
             THEN LET h == CHOOSE x \in dashes : TRUE
                      a == SubSeq(tok, 1, h - 1)
                      b == SubSeq(tok, h + 1, Len(tok))
                  IN  IF IsDigit(a) /\ IsDigit(b) THEN IntOf(a)..IntOf(b) ELSE {}
             ELSE {}

\* the numbers cited in a text
CitedIn(t) == UNION {Denotes(x.tok) : x \in SpanTokens(t)}

\* the numbers cited outside the References section
CitedNumbers(d) == UNION {CitedIn(ContentTexts(d)[f]) : f \in 1..Len(ContentTexts(d))}

\* the tokens of a text that are not plain integers
NonIntegerTokens(t) == {x.tok : x \in {y \in SpanTokens(t) : ~IsDigit(y.tok)}}

HasEmptyMarker(t) == \E i \in 1..(Len(t) - 1) : t[i] = "[" /\ t[i + 1] = "]"

\* the texts of a Document laid end to end, a blank between two fields
FlatText(d) == Join(ContentTexts(d), <<" ">>)

\* where number n is first cited in the Document text
FirstCited(d, n) ==
    LET at == {x.pos : x \in {y \in SpanTokens(FlatText(d)) : n \in Denotes(y.tok)}}
    IN  CHOOSE p \in at : \A q \in at : p <= q

\* the item of the input Document that an item of the output was
OriginalOf(ref) ==
    CHOOSE i \in 1..Len(RefItems(orig)) :
        Item(RefItems(orig)[i], "url_doi") = Item(ref, "url_doi")

OldNumber(ref) == NumberOf(RefItems(orig)[OriginalOf(ref)])

-----------------------------------------------------------------------------
(* Claims on clean_references, under SpecClean *)

\* C1: clean_references is idempotent: a second call changes nothing, in
\* the References list and in every text field
C1_Idempotent == calls >= 2 => data = first

\* C2: after clean_references every number denoted by a marker outside the
\* References section, ranges included, is the number of a Reference Item
C2_CitedAreDeclared == calls >= 1 => CitedNumbers(data) \subseteq DeclaredNumbers(data)

\* C3: after clean_references every remaining Reference Item is cited by a
\* marker outside the References section
C3_DeclaredAreCited == calls >= 1 => DeclaredNumbers(data) \subseteq CitedNumbers(data)

\* C4: after clean_references the reference numbers are exactly 1..k and
\* none is repeated, whatever the input References list
C4_ContiguousNoRepeat ==
    calls >= 1 =>
        /\ DeclaredNumbers(data) = 1..Len(RefItems(data))
        /\ \A i, j \in 1..Len(RefItems(data)) :
              NumberOf(RefItems(data)[i]) = NumberOf(RefItems(data)[j]) => i = j

C6_BadItemsGone ==
    calls >= 1 =>
        /\ \A i \in 1..Len(RefItems(data)) : ~IsBadItem(RefItems(data)[i])
        /\ \A f \in 1..Len(ContentTexts(orig)) :
              CitedIn(ContentTexts(PruneReferences(orig))[f])
                \cap {NumberOf(RefItems(orig)[i]) :
                        i \in {x \in 1..Len(RefItems(orig)) : IsBadItem(RefItems(orig)[x])}}
                = {}
        /\ \A f \in 1..Len(ContentTexts(data)) : ~HasEmptyMarker(ContentTexts(data)[f])

\* C8: clean_references leaves every token that is not a plain integer in
\* the text field it was in
C8_NonNumericTokensKept ==
    calls >= 1 =>
        \A f \in 1..Len(ContentTexts(orig)) :
            NonIntegerTokens(ContentTexts(orig)[f])
                \subseteq NonIntegerTokens(ContentTexts(data)[f])


-----------------------------------------------------------------------------
(* The end-to-end scenario: markers [1], [3], [1,4] and items 1, 2, 3, 4   *)

RequiredFields == {"none", "authors", "year", "journal_source"}

ScenarioItems(miss) == [i \in 1..4 |-> ReferenceItem(i, miss[i], <<"t">>, Uid(i))]

\* the three markers in one text, or spread over the text fields
ScenarioArticle(layout, miss) ==
    IF layout = "one text"
    THEN Article(<<"T">>,
                 <<"[", "1", "]", " ", "[", "3", "]", " ", "[", "1", ",", "4", "]">>,
                 <<>>, ScenarioItems(miss))
    ELSE Article(<<"T">>, <<"[", "1", "]">>,
                 << <<"[", "3", "]">>, <<"[", "1", ",", "4", "]">> >>,
                 ScenarioItems(miss))

InitScenario ==
    /\ \E layout \in {"one text", "spread"}, miss \in [1..4 -> RequiredFields] :
          data = ScenarioArticle(layout, miss)
    /\ orig = data
    /\ first = data
    /\ calls = 0
    /\ IdleExtract
    /\ IdleDedup
    /\ IdleFetch
    /\ IdleManager
    /\ IdlePipeline
    /\ IdleMain
    /\ IdleRetry
    /\ IdleChunk

SpecScenario == InitScenario /\ [][NextClean]_vars

\* the scenario of the claim: item 4 lacks authors, the others are whole
IsScenario(d) ==
    /\ Len(RefItems(d)) = 4
    /\ \A i \in 1..3 : ~IsBadItem(RefItems(d)[i])
    /\ Item(RefItems(d)[4], "authors") = JNull
    /\ Item(RefItems(d)[4], "year") # JNull
    /\ Item(RefItems(d)[4], "journal_source") # JNull

\* C7: in the scenario clean_references removes items 2 and 4, renumbers
\* 1 -> 1 and 3 -> 2, and rewrites the markers to [1], [2], [1]
C7_Scenario ==
    (calls >= 1 /\ IsScenario(orig)) =>
        /\ RefItems(data) = <<ReferenceItem(1, "none", <<"t">>, Uid(1)),
                              ReferenceItem(2, "none", <<"t">>, Uid(3))>>
        /\ \/ ContentTexts(data) =
                << <<"T">>, <<"[", "1", "]", " ", "[", "2", "]", " ", "[", "1", "]">> >>
           \/ ContentTexts(data) =
                << <<"T">>, <<"[", "1", "]">>, <<"[", "2", "]">>, <<"[", "1", "]">> >>

\* C7 witness: clean_references has run on the scenario
C7_Witness == calls = 1 /\ IsScenario(orig) /\ Len(RefItems(data)) = 2

-----------------------------------------------------------------------------
(* extract_citations called on a line *)

LineChars == {"[", "]", ",", "-", "1", "3", "a"}

IdleClean == data = JNull /\ orig = JNull /\ first = JNull /\ calls = 0

InitExtract ==
    /\ \E n \in 0..MaxLineLen : line \in [1..n -> LineChars]
    /\ citations = <<>>
    /\ xdone = FALSE
    /\ IdleClean
    /\ IdleDedup
    /\ IdleFetch
    /\ IdleManager
    /\ IdlePipeline
    /\ IdleMain
    /\ IdleRetry
    /\ IdleChunk

ExtractCitations ==
    /\ ~xdone
    /\ citations' = extract_citations(line)
    /\ xdone' = TRUE
    /\ UNCHANGED <<line, cleanVars, dedupVars, fetchVars, managerVars, pipelineVars,
                 mainVars, retryVars, chunkVars>>

NextExtract == ExtractCitations

SpecExtract == InitExtract /\ [][NextExtract]_vars

\* an interior made only of integers separated by commas or hyphens
IntegersOnly(inner) ==
    LET seps == {c \in 1..Len(inner) : inner[c] \in {",", "-"}}
        cuts == seps \cup {0, Len(inner) + 1}
    IN  /\ \A c \in 1..Len(inner) : c \in seps \/ inner[c] \in DigitChars
        /\ \A c \in cuts : c + 1 \notin cuts

\* the numbers the citation spans of a line denote
ExpectedCitations(t) ==
    UNION {
      LET inner == SubSeq(t, i + 1, SpanEnd(t, i) - 1)
      IN  IF IntegersOnly(inner)
          THEN CitedIn(<<"[">> \o inner \o <<"]">>)
          ELSE {}
      : i \in SpanStarts(t)}

\* C9: extract_citations returns exactly the integers, and the integers of
\* the ranges, of the spans made only of integers, commas and hyphens
C9_ExtractIsUnion ==
    xdone =>
        /\ \A i \in 1..Len(citations) : IsDigit(citations[i])
        /\ {IntOf(citations[i]) : i \in 1..Len(citations)} = ExpectedCitations(line)

\* C9 witness: a range was expanded: 2 is returned and is not in the line
C9_Witness ==
    /\ xdone
    /\ \E i \in 1..Len(citations) : citations[i] = <<"2">>
    /\ \E i \in 1..Len(line) : line[i] = "-"

-----------------------------------------------------------------------------
(* remove_duplicates called on a list of records *)

InputRecords == [content : {<<"a">>, <<"b">>, <<"c">>}, title : {<<"x">>, <<"y">>}]

InitDedup ==
    /\ \E n \in 0..MaxResults : results \in [1..n -> InputRecords]
    /\ unique_results = <<>>
    /\ ddone = FALSE
    /\ IdleClean
    /\ IdleExtract
    /\ IdleFetch
    /\ IdleManager
    /\ IdlePipeline
    /\ IdleMain
    /\ IdleRetry
    /\ IdleChunk

RemoveDuplicates ==
    /\ ~ddone
    /\ unique_results' = remove_duplicates(results)
    /\ ddone' = TRUE
    /\ UNCHANGED <<results, cleanVars, extractVars, fetchVars, managerVars, pipelineVars,
                 mainVars, retryVars, chunkVars>>

NextDedup == RemoveDuplicates

SpecDedup == InitDedup /\ [][NextDedup]_vars

\* the records with no earlier record of the same content
FirstOfContent == {i \in 1..Len(results) :
                      \A j \in 1..(i - 1) : results[j].content # results[i].content}

\* C10: remove_duplicates returns, in input order, exactly the records
\* that no earlier record shares its content with
C10_FirstOfEachContent ==
    ddone =>
        /\ Len(unique_results) = Cardinality(FirstOfContent)
        /\ \A m \in 1..Len(unique_results) :
              unique_results[m] =
                  results[CHOOSE i \in FirstOfContent :
                             Cardinality({j \in FirstOfContent : j <= i}) = m]

\* C10 witness: a record was dropped for its content alone, its other
\* field differing from the record kept, and later records were kept
C10_Witness ==
    /\ ddone
    /\ \E i, j \in 1..Len(results) :
          /\ i < j
          /\ results[i].content = results[j].content
          /\ results[i].title # results[j].title
          /\ j < Len(results)
          /\ Len(results) \in FirstOfContent

-----------------------------------------------------------------------------
(* Rate-limited fetch client: time and the backoff delay                    *)
(*                                                                          *)
(* The clock is read in ticks, TicksPerSecond to the second.  A reading    *)
(* is kept as the ticks elapsed since it was taken, up to _global_delay:   *)
(* the code only compares that difference with _global_delay.  A backoff   *)
(* delay is a float, kept in units of 2^-MantissaBits seconds, the grain   *)
(* of random.random(): it returns the multiples of 2^-53 in [0, 1), and a  *)
(* binary64 float has 53 significant bits.                                  *)

RECURSIVE Pow2(_)
Pow2(n) == IF n = 0 THEN 1 ELSE 2 * Pow2(n - 1)

\* 1.0 in the unit of the delays
One == Pow2(MantissaBits)

\* _global_delay = 1.0, in ticks
global_delay == TicksPerSecond

\* random.uniform(0, 1) is 0 + (1 - 0) * random.random(), in [0, 1)
UniformJitter == 0..(One - 1)

RECURSIVE BitLength(_)
BitLength(x) == IF x = 0 THEN 0 ELSE 1 + BitLength(x \div 2)

\* the float nearest to x: MantissaBits significant bits, ties to even
RoundToFloat(x) ==
    IF BitLength(x) <= MantissaBits THEN x
    ELSE LET unit == Pow2(BitLength(x) - MantissaBits)
             q == x \div unit
             r == x % unit
         IN  IF 2 * r > unit \/ (2 * r = unit /\ q % 2 = 1)
             THEN (q + 1) * unit
             ELSE q * unit

\* a delay that does not grow with the attempt
BackoffDelay_NoExponent(a, jitter) == RoundToFloat(One + jitter)

\* delay = (2 ** attempt) + random.uniform(0, 1)
BackoffDelay(a, jitter) == RoundToFloat(Pow2(a) * One + jitter)

\* asyncio.sleep(delay): the ticks until the sleep of a delay is over
SleepTicks(d) == (d * TicksPerSecond + One - 1) \div One

\* a clock difference one tick later
Saturate(n) == IF n < global_delay THEN n + 1 ELSE global_delay

\* now - self._last_request_time, read through an instance: the instance
\* attribute once the instance has assigned it, the class attribute until
\* then
Elapsed(s) == IF instance_attr[s] THEN elapsed_self[s] ELSE elapsed_class

\* a throttle that never sleeps
ThrottleSleep_None(elapsed) == 0

\* asyncio.sleep(self._global_delay - elapsed)
ThrottleSleep(elapsed) == global_delay - elapsed

-----------------------------------------------------------------------------
(* Rate-limited fetch client: responses and _query_batch                    *)

Sections == {"A", "B"}
PaperIds == {"p1", "p2"}

\* the journals of the loaded SJR table, and the constructor's defaults
sjr_map == [issn \in {<<"1">>} |-> 2]
sjr_threshold == 1
min_citation_count == 50

\* an entry of the batch response for a paper that is known
PaperData(id, issn, cites) ==
    [k |-> "paper", paperId |-> id, issn |-> issn, citationCount |-> cites]

\* the batch response has no entry for the id
Absent == [k |-> "absent"]

\* the bodies of a 200 response to the search: the ids under "data"
SearchBodies == {<<>>, <<"p1", "p2">>}

\* what the batch endpoint holds for the ids: data, null, or nothing
Catalogs ==
    {[id \in PaperIds |-> IF id = "p1" THEN e1 ELSE e2] :
        e1 \in {PaperData("p1", <<"1">>, min_citation_count + 1), JNull, Absent},
        e2 \in {PaperData("p2", <<"1", "-">>, min_citation_count + 1),
                PaperData("p2", <<"1", "-">>, min_citation_count)}}

\* the body of a 200 response to the batch request for ids
RECURSIVE BatchBody(_)
BatchBody(ids) ==
    IF ids = <<>> THEN <<>>
    ELSE (IF catalog[Head(ids)].k = "absent" THEN <<>> ELSE <<catalog[Head(ids)]>>)
         \o BatchBody(Tail(ids))

\* the loop of _query_batch stops at the first null entry:
\* paper_data["query"] = search_query raises TypeError on None
RaisesTypeError(body) == \E i \in 1..Len(body) : body[i].k = "null"

\* issn.replace("-", "").strip()
IssnClean(issn) == Strip(SelectSeq(issn, LAMBDA c : c # "-"))

\* the filter of _query_batch: SJR of the journal of the cleaned ISSN, then
\* the citation count
Keeps(paper_data) ==
    LET issn_clean == IssnClean(paper_data.issn)
    IN  /\ issn_clean \in DOMAIN sjr_map
        /\ sjr_map[issn_clean] > sjr_threshold
        /\ paper_data.citationCount > min_citation_count

RECURSIVE ValidatedPapers(_)
ValidatedPapers(body) ==
    IF body = <<>> THEN <<>>
    ELSE (IF Keeps(Head(body)) THEN <<Head(body)>> ELSE <<>>)
         \o ValidatedPapers(Tail(body))

\* a _query_batch that skips the entries that are null
QueryBatch_SkipNull(response) ==
    IF ~response.ok THEN [raised |-> FALSE, papers |-> <<>>]
    ELSE [raised |-> FALSE,
          papers |-> ValidatedPapers(SelectSeq(response.body,
                                               LAMBDA e : e.k # "null"))]

\* _query_batch, from the return of _request_with_backoff on
QueryBatch(response) ==
    IF ~response.ok THEN [raised |-> FALSE, papers |-> <<>>]
    ELSE IF RaisesTypeError(response.body)
         THEN [raised |-> TRUE, papers |-> <<>>]
         ELSE [raised |-> FALSE, papers |-> ValidatedPapers(response.body)]

\* a dictionary with the key k set to v
Put(d, k, v) == [x \in DOMAIN d \cup {k} |-> IF x = k THEN v ELSE d[x]]

EmptyDict == [x \in {} |-> <<>>]

-----------------------------------------------------------------------------
(* Rate-limited fetch client: the steps of query and _request_with_backoff. *)
(* The event loop runs one coroutine at a time, from one suspension point   *)
(* to the next.                                                             *)

otherVars == <<cleanVars, extractVars, dedupVars, managerVars, pipelineVars,
                 mainVars, retryVars, chunkVars>>

Section(c) == queries[c][qi[c]].section

\* a request starts: the loop variable, and the history of the request
StartRequest(c, ph) ==
    /\ phase' = [phase EXCEPT ![c] = ph]
    /\ attempt' = [attempt EXCEPT ![c] = 0]
    /\ delay' = [delay EXCEPT ![c] = 0]
    /\ sleeps' = [sleeps EXCEPT ![c] = 0]
    /\ sent' = [sent EXCEPT ![c] = 0]
    /\ pc' = [pc EXCEPT ![c] = "loop"]

\* the query is served: results is new_results from here on, and the loop
\* goes to the next query
ServeQuery(c, how, new_results) ==
    /\ query_results' = [query_results EXCEPT ![c] = new_results]
    /\ served' = [served EXCEPT ![c] = Append(@, how)]
    /\ qi' = [qi EXCEPT ![c] = @ + 1]
    /\ pc' = [pc EXCEPT ![c] = "query"]
    /\ UNCHANGED <<phase, attempt, delay, sleeps, sent, paper_ids, outcome>>

\* a failed query that empties the list of its section
WithSection_Overwritten(d, section) == Put(d, section, <<>>)

\* results after "if section not in results: results[section] = []"
WithSection(d, section) == IF section \in DOMAIN d THEN d ELSE Put(d, section, <<>>)

\* results after "results[section].extend(details)", or
\* "results[section] = details" for a new section
WithDetails(d, section, details) ==
    IF section \in DOMAIN d THEN Put(d, section, d[section] \o details)
                            ELSE Put(d, section, details)

\* lines 125-139 of query: the search request has returned
\* the "data" list of a search response: one entry per paper found
SearchData(ids) == [i \in 1..Len(ids) |-> [k |-> "hit", paperId |-> ids[i]]]

\* [paper["paperId"] for paper in search_data.get("data", [])]
PaperIdsOf(search_data) ==
    [i \in 1..Len(search_data) |-> search_data[i].paperId]

SearchReturned(c) ==
    IF ret[c].ok /\ ret[c].body # <<>>
    THEN /\ paper_ids' = [paper_ids EXCEPT ![c] = PaperIdsOf(ret[c].body)]
         /\ StartRequest(c, "batch")
         /\ UNCHANGED <<query_results, served, qi, outcome>>
    ELSE ServeQuery(c, IF ret[c].ok THEN "no ids" ELSE "search failed",
                    WithSection(query_results[c], Section(c)))

\* lines 177-227 of _query_batch and 130-133 of query: the batch request
\* has returned
BatchReturned(c) ==
    IF QueryBatch(ret[c]).raised
    THEN /\ pc' = [pc EXCEPT ![c] = "done"]
         /\ outcome' = [outcome EXCEPT ![c] = "TypeError"]
         /\ UNCHANGED <<query_results, served, qi, phase, attempt, delay, sleeps,
                        sent, paper_ids>>
    ELSE ServeQuery(c, IF ret[c].ok THEN "details" ELSE "batch failed",
                    WithDetails(query_results[c], Section(c),
                                QueryBatch(ret[c]).papers))

\* for query in queries: the next query, or return results
QueryLoop(c) ==
    /\ pc[c] = "query"
    /\ IF qi[c] <= Len(queries[c])
       THEN /\ StartRequest(c, "search")
            /\ UNCHANGED outcome
       ELSE /\ pc' = [pc EXCEPT ![c] = "done"]
            /\ outcome' = [outcome EXCEPT ![c] = "returned"]
            /\ UNCHANGED <<phase, attempt, delay, sleeps, sent>>
    /\ UNCHANGED <<throttleVars, timer, ret, max_retries, client, queries,
                   qi, paper_ids, query_results, served, search_body, catalog,
                   otherVars>>

\* async with self._lock: taken when it is free and nobody is queued,
\* else the caller queues
Acquire(c) ==
    /\ pc[c] = "loop"
    /\ attempt[c] < max_retries[client[c]]
    /\ IF lock = NoCaller /\ waiters = <<>>
       THEN /\ lock' = c
            /\ pc' = [pc EXCEPT ![c] = "locked"]
            /\ UNCHANGED waiters
       ELSE /\ waiters' = Append(waiters, c)
            /\ pc' = [pc EXCEPT ![c] = "waiting"]
            /\ UNCHANGED lock
    /\ UNCHANGED <<elapsed_class, instance_attr, elapsed_self, since_dispatch,
                   since_any, gap, gap_any, attempt, timer, delay, sleeps, ret,
                   sent, queryVars, otherVars>>

\* a lock that its holder keeps while the request is in flight
ReleasedLock_Kept == lock

\* the end of "async with self._lock": the lock goes to the oldest waiter
ReleasedLock == IF waiters = <<>> THEN NoCaller ELSE Head(waiters)

\* lines 253-256: self._last_request_time = now, assigned on the instance;
\* the lock is released; method(url, **kwargs) is called
StampAndSend(c) ==
    /\ instance_attr' = [instance_attr EXCEPT ![client[c]] = TRUE]
    /\ elapsed_self' = [elapsed_self EXCEPT ![client[c]] = 0]
    /\ lock' = ReleasedLock
    /\ waiters' = IF waiters = <<>> THEN waiters ELSE Tail(waiters)
    /\ pc' = IF waiters = <<>>
             THEN [pc EXCEPT ![c] = "inflight"]
             ELSE [pc EXCEPT ![c] = "inflight", ![Head(waiters)] = "locked"]
    /\ sent' = [sent EXCEPT ![c] = @ + 1]
    /\ gap' = [gap EXCEPT ![client[c]] = since_dispatch[client[c]]]
    /\ gap_any' = since_any
    /\ since_dispatch' = [since_dispatch EXCEPT ![client[c]] = 0]
    /\ since_any' = 0
    /\ UNCHANGED <<elapsed_class, attempt, delay, sleeps, ret, queryVars, otherVars>>

\* lines 249-252: inside the lock, sleep for what is left of _global_delay
\* since the last request, or send at once
Critical(c) ==
    /\ pc[c] = "locked"
    /\ lock = c
    /\ IF Elapsed(client[c]) < global_delay
       THEN /\ timer' = [timer EXCEPT ![c] = ThrottleSleep(Elapsed(client[c]))]
            /\ pc' = [pc EXCEPT ![c] = "throttled"]
            /\ UNCHANGED <<throttleVars, attempt, delay, sleeps, ret, sent,
                           queryVars, otherVars>>
       ELSE /\ StampAndSend(c)
            /\ UNCHANGED timer

\* the sleep inside the lock is over
ThrottleWake(c) ==
    /\ pc[c] = "throttled"
    /\ timer[c] = 0
    /\ StampAndSend(c)
    /\ UNCHANGED timer

\* the response has status 200: return await response.json()
Respond200(c) ==
    /\ pc[c] = "inflight"
    /\ pc' = [pc EXCEPT ![c] = "returned"]
    /\ ret' = [ret EXCEPT ![c] =
                  ReturnsJson(IF phase[c] = "search" THEN SearchData(search_body)
                                                     ELSE BatchBody(paper_ids[c]))]
    /\ UNCHANGED <<throttleVars, attempt, timer, delay, sleeps, sent, queryVars,
                   otherVars>>

\* the attempt fails and is retried: status 429, another status (5xx), or
\* an aiohttp.ClientError; then lines 268-271, the backoff sleep
FailureKinds == {"429", "5xx", "ClientError"}

RespondFailure(c) ==
    /\ pc[c] = "inflight"
    /\ \E kind \in FailureKinds, jitter \in UniformJitter :
          /\ delay' = [delay EXCEPT ![c] = BackoffDelay(attempt[c], jitter)]
          /\ timer' = [timer EXCEPT ![c] =
                          SleepTicks(BackoffDelay(attempt[c], jitter))]
    /\ sleeps' = [sleeps EXCEPT ![c] = @ + 1]
    /\ pc' = [pc EXCEPT ![c] = "backoff"]
    /\ UNCHANGED <<throttleVars, attempt, ret, sent, queryVars, otherVars>>

\* the total timeout of the session expires: asyncio.TimeoutError, which is
\* not an aiohttp.ClientError, leaves _request_with_backoff and query
RespondTimeout(c) ==
    /\ pc[c] = "inflight"
    /\ pc' = [pc EXCEPT ![c] = "done"]
    /\ outcome' = [outcome EXCEPT ![c] = "TimeoutError"]
    /\ UNCHANGED <<throttleVars, attempt, timer, delay, sleeps, ret, sent,
                   max_retries, client, queries, qi, phase, paper_ids,
                   query_results, served, search_body, catalog, otherVars>>

\* the backoff sleep is over: the next attempt
BackoffWake(c) ==
    /\ pc[c] = "backoff"
    /\ timer[c] = 0
    /\ attempt' = [attempt EXCEPT ![c] = @ + 1]
    /\ pc' = [pc EXCEPT ![c] = "loop"]
    /\ UNCHANGED <<throttleVars, timer, delay, sleeps, ret, sent, queryVars, otherVars>>

\* the loop is over: return None
Exhausted(c) ==
    /\ pc[c] = "loop"
    /\ attempt[c] >= max_retries[client[c]]
    /\ ret' = [ret EXCEPT ![c] = ReturnsNone]
    /\ pc' = [pc EXCEPT ![c] = "returned"]
    /\ UNCHANGED <<throttleVars, attempt, timer, delay, sleeps, sent, queryVars,
                   otherVars>>

\* query goes on with what _request_with_backoff returned
Continue(c) ==
    /\ pc[c] = "returned"
    /\ IF phase[c] = "search" THEN SearchReturned(c) ELSE BatchReturned(c)
    /\ UNCHANGED <<throttleVars, timer, ret, max_retries, client, queries,
                   search_body, catalog, otherVars>>

\* one tick of time passes
Tick ==
    /\ elapsed_class' = Saturate(elapsed_class)
    /\ elapsed_self' = [s \in Clients |-> Saturate(elapsed_self[s])]
    /\ since_dispatch' = [s \in Clients |-> Saturate(since_dispatch[s])]
    /\ since_any' = Saturate(since_any)
    /\ timer' = [c \in Callers |-> IF timer[c] > 0 THEN timer[c] - 1 ELSE 0]
    /\ UNCHANGED <<lock, waiters, instance_attr, gap, gap_any, pc, attempt,
                   delay, sleeps, ret, sent, queryVars, otherVars>>

NextFetch ==
    \/ \E c \in Callers :
          \/ QueryLoop(c)
          \/ Acquire(c)
          \/ Critical(c)
          \/ ThrottleWake(c)
          \/ Respond200(c)
          \/ RespondFailure(c)
          \/ RespondTimeout(c)
          \/ BackoffWake(c)
          \/ Exhausted(c)
          \/ Continue(c)
    \/ Tick

\* a query of the list given to query
Query(section) == [section |-> section]

\* every caller is about to call query; no request has been dispatched
InitCallers(clients, retries, qs) ==
    /\ lock = NoCaller
    /\ waiters = <<>>
    /\ elapsed_class = 0
    /\ instance_attr = [s \in Clients |-> FALSE]
    /\ elapsed_self = [s \in Clients |-> 0]
    /\ max_retries = [s \in Clients |-> retries]
    /\ client = clients
    /\ queries = qs
    /\ qi = [c \in Callers |-> 1]
    /\ phase = [c \in Callers |-> "search"]
    /\ paper_ids = [c \in Callers |-> <<>>]
    /\ query_results = [c \in Callers |-> EmptyDict]
    /\ outcome = [c \in Callers |-> "running"]
    /\ pc = [c \in Callers |-> "query"]
    /\ attempt = [c \in Callers |-> 0]
    /\ timer = [c \in Callers |-> 0]
    /\ delay = [c \in Callers |-> 0]
    /\ sleeps = [c \in Callers |-> 0]
    /\ ret = [c \in Callers |-> ReturnsNone]
    /\ sent = [c \in Callers |-> 0]
    /\ since_dispatch = [s \in Clients |-> global_delay]
    /\ since_any = global_delay
    /\ gap = [s \in Clients |-> global_delay]
    /\ gap_any = global_delay
    /\ served = [c \in Callers |-> <<>>]
    /\ IdleClean
    /\ IdleExtract
    /\ IdleDedup
    /\ IdleManager
    /\ IdlePipeline
    /\ IdleMain
    /\ IdleRetry
    /\ IdleChunk

\* two callers, each with one query, through one client or through two;
\* the search finds no paper
InitThrottle ==
    /\ \E second \in Clients :
          InitCallers([c \in Callers |-> IF c = "c1" THEN "s1" ELSE second],
                      MaxRetriesThrottle,
                      [c \in Callers |-> <<Query("A")>>])
    /\ search_body = <<>>
    /\ catalog \in Catalogs
    /\ catalog["p1"].k = "paper"
    /\ catalog["p2"].citationCount > min_citation_count

SpecThrottle == InitThrottle /\ [][NextFetch]_vars

\* one caller with two queries, of one section or of two; the other caller
\* has no query
InitFetch ==
    /\ \E second \in Sections :
          InitCallers([c \in Callers |-> "s1"], MaxRetries,
                      [c \in Callers |-> IF c = "c1"
                                         THEN <<Query("A"), Query(second)>>
                                         ELSE <<>>])
    /\ search_body \in SearchBodies
    /\ catalog \in Catalogs

SpecFetch == InitFetch /\ [][NextFetch]_vars

-----------------------------------------------------------------------------
(* Claims on the throttle, under SpecThrottle *)

\* C11: any two request attempts dispatched through one client, first
\* attempts and retries alike, are at least _global_delay apart
C11_SameClientSpaced == \A s \in Clients : gap[s] >= global_delay

\* C11 witness: two callers of one client have a request in flight, one of
\* them a retry, the later one dispatched just now
C11_Witness ==
    \E a, b \in Callers :
        /\ a # b
        /\ client[a] = client[b]
        /\ pc[a] = "inflight" /\ pc[b] = "inflight"
        /\ attempt[a] >= 1
        /\ since_dispatch[client[a]] = 0

\* C12: any two request attempts, through one client or through two, are
\* at least _global_delay apart: the clock is one for all instances
C12_AllClientsSpaced == gap_any >= global_delay

\* C13: no caller holds the lock while its request is in flight, and at
\* most one caller is inside the lock
C13_LockNotHeldInFlight ==
    /\ \A c \in Callers : pc[c] \in {"inflight", "backoff", "returned", "done"}
                              => lock # c
    /\ Cardinality({c \in Callers : pc[c] \in {"locked", "throttled"}}) <= 1
    /\ \A c \in Callers : pc[c] \in {"locked", "throttled"} => lock = c

\* C13 witness: the requests of two callers are in flight together, and a
\* request is in flight while another caller sleeps inside the lock
C13_Witness ==
    \/ /\ \A c \in Callers : pc[c] = "inflight"
       /\ lock = NoCaller
    \/ \E a, b \in Callers : pc[a] = "inflight" /\ pc[b] = "throttled" /\ lock = b

-----------------------------------------------------------------------------
(* Claims on retries and failures, under SpecFetch *)

\* the query served last by c
LastServed(c) == queries[c][qi[c] - 1]

\* c has just served a query whose search ran out of attempts
JustFailed(c) ==
    /\ pc[c] = "query"
    /\ served[c] # <<>>
    /\ served[c][Len(served[c])] = "search failed"

\* C14 as claimed: a request sends at most max_retries attempts and returns
\* None when all of them fail, and query then holds an empty list for the
\* section of that query
C14_EmptyListRecorded ==
    \A c \in Callers :
        /\ sent[c] <= max_retries[client[c]]
        /\ JustFailed(c) => query_results[c][LastServed(c).section] = <<>>

\* C14 as amended: a request sends at most max_retries attempts and returns
\* None when all of them fail; query then adds no candidate for that query:
\* the list of its section is left as it is, or is created empty; and
\* query goes on with the next query
C14_NoCandidateAdded ==
    /\ [](\A c \in Callers :
            /\ sent[c] <= max_retries[client[c]]
            /\ (pc[c] = "returned" /\ sleeps[c] = max_retries[client[c]])
                  => (~ret[c].ok /\ sent[c] = max_retries[client[c]]))
    /\ [][\A c \in Callers :
            (pc[c] = "returned" /\ phase[c] = "search" /\ ~ret[c].ok
                /\ pc'[c] # pc[c])
            => /\ pc'[c] = "query"
               /\ qi'[c] = qi[c] + 1
               /\ outcome'[c] = "running"
               /\ DOMAIN query_results'[c]
                     = DOMAIN query_results[c] \cup {Section(c)}
               /\ \A x \in DOMAIN query_results'[c] :
                     query_results'[c][x] =
                         IF x \in DOMAIN query_results[c]
                         THEN query_results[c][x] ELSE <<>>]_vars

\* C14 witness: the first query found papers for a section, the second
\* query of the same section ran out of attempts, and the papers are kept
C14_Witness ==
    \E c \in Callers :
        /\ JustFailed(c)
        /\ Len(served[c]) = 2
        /\ served[c][1] = "details"
        /\ queries[c][1].section = queries[c][2].section
        /\ query_results[c][LastServed(c).section] # <<>>
        /\ sleeps[c] = max_retries[client[c]]

\* C15: no transient failure of an attempt (timeout, 5xx, 429) is raised
\* out of query
C15_TransientNeverRaised == \A c \in Callers : outcome[c] # "TimeoutError"

\* C16: a batch response with null entries does not make query raise: the
\* null entries are dropped
C16_NullEntriesDropped == \A c \in Callers : outcome[c] # "TypeError"

\* a request of c has returned the response of its 4th attempt
FourthSucceeded(c) == pc[c] = "returned" /\ ret[c].ok /\ attempt[c] = 3

\* C17 as claimed: a request that succeeds on its 4th attempt has slept 3
\* backoff delays, and each backoff delay of a request is strictly greater
\* than the one before it
C17_StrictlyIncreasing ==
    /\ [](\A c \in Callers : FourthSucceeded(c) => sleeps[c] = 3)
    /\ [][\A c \in Callers :
            (sleeps'[c] = sleeps[c] + 1 /\ sleeps[c] >= 1)
                => delay[c] < delay'[c]]_vars

\* C17 as amended: a request that succeeds on its 4th attempt has slept 3
\* backoff delays; no backoff delay of a request is smaller than the one
\* before it, and from the third on each is strictly greater
C17_NonDecreasing ==
    /\ [](\A c \in Callers : FourthSucceeded(c) => sleeps[c] = 3)
    /\ [][\A c \in Callers :
            /\ (sleeps'[c] = sleeps[c] + 1 /\ sleeps[c] = 1)
                  => delay[c] <= delay'[c]
            /\ (sleeps'[c] = sleeps[c] + 1 /\ sleeps[c] >= 2)
                  => delay[c] < delay'[c]]_vars

\* C17 witness: the 4th attempt succeeded after 3 sleeps, the last of them
\* of 4.0 seconds or more
C17_Witness ==
    \E c \in Callers :
        /\ FourthSucceeded(c)
        /\ sleeps[c] = 3
        /\ delay[c] >= 4 * One

-----------------------------------------------------------------------------
(* ReferenceManager (src/src/reference_manager.py) *)

\* the first position at or after i of t that holds no digit
RECURSIVE DigitsEnd(_, _)
DigitsEnd(t, i) ==
    IF i <= Len(t) /\ t[i] \in DigitChars THEN DigitsEnd(t, i + 1) ELSE i

\* the first position at or after i of t that holds no whitespace
RECURSIVE SpacesEnd(_, _)
SpacesEnd(t, i) ==
    IF i <= Len(t) /\ t[i] = " " THEN SpacesEnd(t, i + 1) ELSE i

\* the length of the match of ^\[\d+\]\s* in t, 0 when it does not match
NumberingMatch(t) ==
    IF Len(t) >= 1 /\ t[1] = "["
    THEN LET d == DigitsEnd(t, 2)
         IN  IF d > 2 /\ d <= Len(t) /\ t[d] = "]"
             THEN SpacesEnd(t, d + 1) - 1
             ELSE 0
    ELSE 0

\* a _strip_numbering that leaves the whitespace after the token
strip_numbering_TokenOnly(reference) ==
    IF NumberingMatch(reference) = 0 THEN reference
    ELSE SubSeq(reference, DigitsEnd(reference, 2) + 1, Len(reference))

\* _strip_numbering: re.sub(r'^\[\d+\]\s*', '', reference)
strip_numbering(reference) ==
    SubSeq(reference, NumberingMatch(reference) + 1, Len(reference))

\* a paper dict as add_papers reads it
PaperDict(authors, title, venue, year, doi) ==
    [authors |-> authors, title |-> title, venue |-> venue, year |-> year,
     doi |-> doi]

\* _format_paper_reference:
\* f"{authors} ({year}). {title}. {journal}. {url}"
format_paper_reference(paper) ==
    Join(paper.authors, <<",", " ">>)
        \o <<" ", "(">> \o StrOf(paper.year) \o <<")", ".", " ">>
        \o paper.title \o <<".", " ">>
        \o paper.venue \o <<".", " ">>
        \o (IF paper.doi # <<>>
            THEN <<"h", "t", "t", "p", "s", ":", "/", "/", "d", "o", "i", ".",
                   "o", "r", "g", "/">> \o paper.doi
            ELSE <<"N", "o", " ", "D", "O", "I">>)

\* the manager as one value
Manager == [number_to_ref |-> number_to_ref, ref_to_number |-> ref_to_number,
            next_number |-> next_number]

\* a loop body that never looks the reference up
AddOne_AlwaysNew(m, ref) ==
    [number_to_ref |-> Put(m.number_to_ref, m.next_number,
                           [raw |-> strip_numbering(ref)]),
     ref_to_number |-> Put(m.ref_to_number, strip_numbering(ref), m.next_number),
     next_number |-> m.next_number + 1]

\* the body of the loops of add_references and add_papers
AddOne(m, ref) ==
    LET cleaned_ref == strip_numbering(ref)
    IN  IF cleaned_ref \notin DOMAIN m.ref_to_number
        THEN [number_to_ref |-> Put(m.number_to_ref, m.next_number,
                                    [raw |-> cleaned_ref]),
              ref_to_number |-> Put(m.ref_to_number, cleaned_ref, m.next_number),
              next_number |-> m.next_number + 1]
        ELSE m

RECURSIVE add_references(_, _)
add_references(m, references) ==
    IF references = <<>> THEN m
    ELSE add_references(AddOne(m, Head(references)), Tail(references))

RECURSIVE add_papers(_, _)
add_papers(m, papers) ==
    IF papers = <<>> THEN m
    ELSE add_papers(AddOne(m, format_paper_reference(Head(papers))), Tail(papers))

\* self.ref_to_number.get(cleaned_ref, -1)
NotFound == -1

get_reference_number(reference) ==
    IF strip_numbering(reference) \in DOMAIN ref_to_number
    THEN ref_to_number[strip_numbering(reference)]
    ELSE NotFound

\* the raw reference strings given to add_references
RawRefs ==
    { <<"S">>,
      <<"[", "1", "]", " ", "S">>,
      <<"[", "2", "]", "S">>,
      <<" ", "S">>,
      <<"[", "1", "]", "[", "2", "]", " ", "S">>,
      <<"A", " ", "(", "1", ")", ".", " ", "T", ".", " ", "J", ".", " ",
        "N", "o", " ", "D", "O", "I">> }

\* the papers given to add_papers
InputPapers ==
    { PaperDict(<< <<"A">> >>, <<"T">>, <<"J">>, 1, <<>>),
      PaperDict(<< <<"[", "3", "]", " ", "A">>, <<"B">> >>, <<"T">>, <<"J">>, 1,
                <<"d">>) }

\* lists of at most MaxBatch elements of S, not empty
Batches(S) == UNION {[1..n -> S] : n \in 1..MaxBatch}

Range(f) == {f[i] : i \in DOMAIN f}

InitManager ==
    /\ NewManager
    /\ raw_added = {}
    /\ IdleClean
    /\ IdleExtract
    /\ IdleDedup
    /\ IdleFetch
    /\ IdlePipeline
    /\ IdleMain
    /\ IdleRetry
    /\ IdleChunk

SetManager(m) ==
    /\ number_to_ref' = m.number_to_ref
    /\ ref_to_number' = m.ref_to_number
    /\ next_number' = m.next_number

AddReferences ==
    \E references \in Batches(RawRefs) :
        /\ SetManager(add_references(Manager, references))
        /\ raw_added' = raw_added \cup Range(references)
        /\ UNCHANGED <<cleanVars, extractVars, dedupVars, fetchVars, pipelineVars,
                 mainVars, retryVars, chunkVars>>

AddPapers ==
    \E papers \in Batches(InputPapers) :
        /\ SetManager(add_papers(Manager, papers))
        /\ raw_added' = raw_added
                          \cup {format_paper_reference(p) : p \in Range(papers)}
        /\ UNCHANGED <<cleanVars, extractVars, dedupVars, fetchVars, pipelineVars,
                 mainVars, retryVars, chunkVars>>

NextManager == AddReferences \/ AddPapers

SpecManager == InitManager /\ [][NextManager]_vars

\* strings get_reference_number is asked that are never added
AskedOnly == { <<"[", "a", "]", " ", "S">>, <<"[", "2", "]", " ", "S">> }

\* every raw string the manager can be given or asked
AllRaw ==
    RawRefs \cup AskedOnly \cup {format_paper_reference(p) : p \in InputPapers}

\* t starts with a numbering token [n] that ends at position n
TokenEnd(t) ==
    IF \E n \in 3..Len(t) : t[1] = "[" /\ t[n] = "]" /\ IsDigit(SubSeq(t, 2, n - 1))
    THEN CHOOSE n \in 3..Len(t) :
             t[1] = "[" /\ t[n] = "]" /\ IsDigit(SubSeq(t, 2, n - 1))
    ELSE 0

\* t without its leading numbering token
TokenRemoved(t) == SubSeq(t, TokenEnd(t) + 1, Len(t))

\* t without its leading numbering token and the blanks after the token
Canonical(t) == IF TokenEnd(t) = 0 THEN t ELSE LStrip(TokenRemoved(t))

\* the canonical strings added so far
CanonicalAdded == {Canonical(r) : r \in raw_added}

\* C18: the numbers assigned are exactly 1..n for the n distinct canonical
\* strings added, ref_to_number and number_to_ref are inverse of each
\* other, and a string never changes its number: adding it again, or adding
\* others, assigns it no new number
C18_NumbersAreOneToN ==
    /\ [](/\ DOMAIN number_to_ref = 1..Cardinality(CanonicalAdded)
          /\ next_number = Cardinality(CanonicalAdded) + 1
          /\ DOMAIN ref_to_number = CanonicalAdded
          /\ \A k \in DOMAIN ref_to_number :
                /\ ref_to_number[k] \in DOMAIN number_to_ref
                /\ number_to_ref[ref_to_number[k]].raw = k
          /\ \A n \in DOMAIN number_to_ref :
                /\ number_to_ref[n].raw \in DOMAIN ref_to_number
                /\ ref_to_number[number_to_ref[n].raw] = n)
    /\ [][\A k \in DOMAIN ref_to_number :
            /\ k \in DOMAIN ref_to_number'
            /\ ref_to_number'[k] = ref_to_number[k]]_vars

\* C18 witness: three strings were added, two of them with one canonical
\* string, from add_references and from add_papers, and two numbers are
\* assigned
C18_Witness ==
    /\ Cardinality(raw_added) = 3
    /\ Cardinality(DOMAIN ref_to_number) = 2
    /\ next_number = 3
    /\ \E p \in InputPapers : format_paper_reference(p) \in raw_added
    /\ \E r \in RawRefs : r \in raw_added

\* C19 as claimed: two added strings have one number exactly when they are
\* identical after the leading [n] token is removed, and
\* get_reference_number returns the number of a string that is so
\* identical to an added one, and -1 for any other string
C19_SameNumberIffTokenRemoved ==
    /\ \A r1, r2 \in raw_added :
          (get_reference_number(r1) = get_reference_number(r2))
              <=> (TokenRemoved(r1) = TokenRemoved(r2))
    /\ \A r \in AllRaw :
          IF \E a \in raw_added : TokenRemoved(a) = TokenRemoved(r)
          THEN \E a \in raw_added :
                  /\ TokenRemoved(a) = TokenRemoved(r)
                  /\ get_reference_number(r) = get_reference_number(a)
                  /\ get_reference_number(r) # NotFound
          ELSE get_reference_number(r) = NotFound

\* C19 as amended: the same, the strings compared after the leading [n]
\* token and the blanks that follow the token are removed
C19_SameNumberIffCanonical ==
    /\ \A r1, r2 \in raw_added :
          (get_reference_number(r1) = get_reference_number(r2))
              <=> (Canonical(r1) = Canonical(r2))
    /\ \A r \in AllRaw :
          IF \E a \in raw_added : Canonical(a) = Canonical(r)
          THEN \E a \in raw_added :
                  /\ Canonical(a) = Canonical(r)
                  /\ get_reference_number(r) = get_reference_number(a)
                  /\ get_reference_number(r) # NotFound
          ELSE get_reference_number(r) = NotFound

\* C19 witness: "[1] S" and " S" were added and have two numbers, "S" was
\* not added and has the number of "[1] S"
C19_Witness ==
    /\ raw_added = { <<"[", "1", "]", " ", "S">>, <<" ", "S">> }
    /\ get_reference_number(<<"[", "1", "]", " ", "S">>)
          # get_reference_number(<<" ", "S">>)
    /\ get_reference_number(<<"S">>)
          = get_reference_number(<<"[", "1", "]", " ", "S">>)
    /\ get_reference_number(<<"[", "a", "]", " ", "S">>) = NotFound

-----------------------------------------------------------------------------
(* process_topic (src/main.py): one topic's pipeline, one action for each  *)
(* await of the coroutine and the statements up to the next await          *)

\* the Documents the generative model returns: one with its references in
\* order, one with an uncited reference, one with a reference without authors
GeneratedArticles ==
    { Article(<<"T">>, <<"[", "1", "]">>, <<>>,
              << ReferenceItem(1, "none", <<"t">>, Uid(1)) >>),
      Article(<<"T">>, <<"[", "2", "]">>, <<>>,
              << ReferenceItem(1, "none", <<"t">>, Uid(1)),
                 ReferenceItem(2, "none", <<"t">>, Uid(2)) >>),
      Article(<<"T">>, <<"[", "1", "]", " ", "[", "2", "]">>, <<>>,
              << ReferenceItem(1, "authors", <<"t">>, Uid(1)),
                 ReferenceItem(2, "none", <<"t">>, Uid(2)) >>) }

\* the value process_topic returns after an exception
FailureSentinel == JStr(<<>>)

\* save_results of a Document: the file name's suffix, the Document, and
\* whether it is the output of clean_references
SaveArticle(log, name, doc, is_cleaned) ==
    Append(log, [name |-> name, isdoc |-> TRUE, doc |-> doc, cleaned |-> is_cleaned])

\* save_results of the chunks, the queries and the paper lists
SaveOther(log, name) ==
    Append(log, [name |-> name, isdoc |-> FALSE, doc |-> JNull, cleaned |-> FALSE])

InitPipeline ==
    /\ pstep = "outline"
    /\ article = JNull
    /\ cleaned = FALSE
    /\ saved = <<>>
    /\ presult = JNull
    /\ IdleClean
    /\ IdleExtract
    /\ IdleDedup
    /\ IdleFetch
    /\ IdleManager
    /\ IdleMain
    /\ IdleRetry
    /\ IdleChunk

notPipelineVars == <<cleanVars, extractVars, dedupVars, fetchVars, managerVars,
                     mainVars, retryVars, chunkVars>>

\* generate_outline returned: the outline is saved, then
\* integrate_uptodate_content is awaited
OutlineGenerated ==
    /\ pstep = "outline"
    /\ \E outline \in GeneratedArticles :
          /\ article' = outline
          /\ cleaned' = FALSE
          /\ saved' = SaveArticle(saved, "_outline", outline, FALSE)
    /\ pstep' = "uptodate"
    /\ UNCHANGED <<presult, notPipelineVars>>

\* the statements after integrate_uptodate_content returned a Document:
\* clean_references, the remapped snapshot, then the queries are awaited
RemapUptodate(log, doc) ==
    /\ article' = clean_references(doc)
    /\ cleaned' = TRUE
    /\ saved' = SaveArticle(log, "_uptodate_remapped", clean_references(doc), TRUE)
    /\ pstep' = "queries"
    /\ UNCHANGED <<presult, notPipelineVars>>

\* integrate_uptodate_content up to its await: it returns the outline as
\* it was when no search result is relevant; it saves the chunks and awaits
\* refine_outline_with_uptodate; or a step before the save raises, it
\* returns None, article.model_dump_json raises and process_topic
\* returns ""
UptodateIntegrated ==
    /\ pstep = "uptodate"
    /\ \/ RemapUptodate(saved, article)
       \/ /\ saved' = SaveOther(saved, "_uptodate_chunks")
          /\ pstep' = "refine"
          /\ UNCHANGED <<article, cleaned, presult, notPipelineVars>>
       \/ /\ presult' = FailureSentinel
          /\ pstep' = "done"
          /\ UNCHANGED <<article, cleaned, saved, notPipelineVars>>

\* refine_outline_with_uptodate ended: the refined outline is saved and
\* integrate_uptodate_content returns it; or it raised or returned None,
\* integrate_uptodate_content returns None and process_topic returns ""
\* with the chunks saved
RefineReturned ==
    /\ pstep = "refine"
    /\ \/ \E refined \in GeneratedArticles :
             RemapUptodate(SaveArticle(saved, "_uptodate", refined, FALSE),
                           refined)
       \/ /\ presult' = FailureSentinel
          /\ pstep' = "done"
          /\ UNCHANGED <<article, cleaned, saved, notPipelineVars>>

\* generate_search_query_response returned: the queries are saved, then
\* semantic_client.query is awaited
QueriesGenerated ==
    /\ pstep = "queries"
    /\ saved' = SaveOther(saved, "_queries")
    /\ pstep' = "papers"
    /\ UNCHANGED <<article, cleaned, presult, notPipelineVars>>

\* semantic_client.query returned: the papers and the top papers are
\* saved, then filter_papers_by_relevancy is awaited
PapersFetched ==
    /\ pstep = "papers"
    /\ saved' = SaveOther(SaveOther(saved, "_papers"), "_papers_top")
    /\ pstep' = "filter"
    /\ UNCHANGED <<article, cleaned, presult, notPipelineVars>>

\* filter_papers_by_relevancy returned: the filtered papers are saved,
\* then integrate_papers is awaited
PapersFiltered ==
    /\ pstep = "filter"
    /\ saved' = SaveOther(saved, "_papers_filtered")
    /\ pstep' = "integrate"
    /\ UNCHANGED <<article, cleaned, presult, notPipelineVars>>

\* integrate_papers returned: the sourced article is saved as returned,
\* then cleaned and saved again, then comprehensive_edit is awaited
PapersIntegrated ==
    /\ pstep = "integrate"
    /\ \E sourced_article \in GeneratedArticles :
          /\ article' = clean_references(sourced_article)
          /\ saved' = SaveArticle(
                          SaveArticle(saved, "_sourced", sourced_article, FALSE),
                          "_sourced_remapped", clean_references(sourced_article), TRUE)
    /\ cleaned' = TRUE
    /\ pstep' = "edit"
    /\ UNCHANGED <<presult, notPipelineVars>>

\* comprehensive_edit returned: the edited article is saved as returned,
\* then cleaned and saved as the final article; the cleaned sourced article
\* is returned
Edited ==
    /\ pstep = "edit"
    /\ \E final_article \in GeneratedArticles :
          /\ saved' = SaveArticle(
                          SaveArticle(saved, "_edit", final_article, FALSE),
                          "_final", clean_references(final_article), TRUE)
    /\ presult' = article
    /\ pstep' = "done"
    /\ UNCHANGED <<article, cleaned, notPipelineVars>>

\* an awaited step raised: except Exception returns ""
Raised ==
    /\ pstep \in {"outline", "queries", "papers", "filter", "integrate", "edit"}
    /\ presult' = FailureSentinel
    /\ pstep' = "done"
    /\ UNCHANGED <<article, cleaned, saved, notPipelineVars>>

NextPipeline ==
    \/ OutlineGenerated
    \/ UptodateIntegrated
    \/ RefineReturned
    \/ QueriesGenerated
    \/ PapersFetched
    \/ PapersFiltered
    \/ PapersIntegrated
    \/ Edited
    \/ Raised

SpecPipeline == InitPipeline /\ [][NextPipeline]_vars

\* C20: every Document snapshot written by save_results in one
\* process_topic run is the output of clean_references, with no step that
\* merges content between the clean_references call and the save
C20_CleanedBeforeEverySnapshot ==
    \A i \in DOMAIN saved :
        saved[i].isdoc =>
            /\ saved[i].cleaned
            /\ saved[i].doc = clean_references(saved[i].doc)

-----------------------------------------------------------------------------
(* main (src/main.py): one bound_process task for each scheduled topic,    *)
(* gathered, each running process_topic under the semaphore. The event     *)
(* loop runs the tasks gather created in their order, each up to its first *)
(* suspension, before it resumes any of them.                              *)

MAX_CONCURRENT_TASKS == 5

Topics == 1..NumTopics

notMainVars == <<cleanVars, extractVars, dedupVars, fetchVars, managerVars,
                 pipelineVars, retryVars, chunkVars>>

\* a Semaphore.locked that never reports the semaphore taken
locked_Never == FALSE

\* Semaphore.locked: the value is 0 or a task waits
locked == semaphore = 0 \/ sem_waiters # <<>>

\* the tasks in process_topic
InProcessTopic == {t \in Topics : task[t] = "running"}

\* the waiters whose future is not done
NotDone(tk) == {i \in DOMAIN sem_waiters : tk[sem_waiters[i]] = "waiting"}

\* Semaphore._wake_up_next on the tasks tk and the value v: the first
\* waiter that is not done is given the permit
wake_up_next(tk, v) ==
    IF NotDone(tk) = {}
    THEN [task |-> tk, value |-> v]
    ELSE LET i == CHOOSE i \in NotDone(tk) : \A j \in NotDone(tk) : i <= j
         IN  [task |-> [tk EXCEPT ![sem_waiters[i]] = "woken"], value |-> v - 1]

\* Semaphore.release
release(tk, v) == wake_up_next(tk, v + 1)

\* the columns process_topic reads from its row before topic is assigned
RowColumns == {"Condition", "Alternative Name", "Category"}

\* process_topic from its first line to its first await, run by task t
\* that holds a permit: the ways it can go. With the columns topic is
\* assigned; then either sanitize_filename, os.makedirs and logger.info
\* pass and it awaits generate_outline, or one of them raises, except
\* Exception returns "" and the async with block releases the permit, all
\* in this run of the task. Without one of the columns row[...] raises
\* KeyError before topic is assigned, the except clause raises
\* UnboundLocalError on reading topic, and the async with block releases
\* the permit
EnterProcessTopic(t, tk, v) ==
    IF RowColumns \subseteq columns
    THEN { [task |-> [tk EXCEPT ![t] = "running"], value |-> v],
           release([tk EXCEPT ![t] = "sentinel"], v) }
    ELSE { release([tk EXCEPT ![t] = "raised"], v) }

SetTasks(r) ==
    /\ task' = r.task
    /\ semaphore' = r.value

\* the conditions tables: with every column, without a column that only
\* process_topic reads, without the column main reads
InputColumns ==
    { RowColumns, {"Condition", "Category"}, {"Alternative Name", "Category"} }

\* main up to the loop that makes the tasks: the table is loaded and the
\* semaphore is made, no task exists
InitMain ==
    /\ task = [t \in Topics |-> "none"]
    /\ semaphore = MAX_CONCURRENT_TASKS
    /\ sem_waiters = <<>>
    /\ main_pc = "tasks"
    /\ columns \in InputColumns
    /\ IdleClean
    /\ IdleExtract
    /\ IdleDedup
    /\ IdleFetch
    /\ IdleManager
    /\ IdlePipeline
    /\ IdleRetry
    /\ IdleChunk

\* the loop over the rows: the default argument conditions_df['Condition']
\* of bound_process is evaluated where the function is defined, so without
\* that column the first definition raises KeyError, no task is made and
\* main logs the critical error; with it main makes one coroutine for each
\* row and awaits gather
MakeTasks ==
    /\ main_pc = "tasks"
    /\ IF "Condition" \in columns
       THEN /\ task' = [t \in Topics |-> "scheduled"]
            /\ main_pc' = "gather"
       ELSE /\ main_pc' = "critical"
            /\ UNCHANGED task
    /\ UNCHANGED <<semaphore, sem_waiters, columns, notMainVars>>

\* the first run of task t: async with semaphore, then process_topic, or
\* the wait for a permit
Begin(t) ==
    /\ main_pc = "gather"
    /\ task[t] = "scheduled"
    /\ \A u \in Topics : u < t => task[u] # "scheduled"
    /\ IF locked
       THEN /\ task' = [task EXCEPT ![t] = "waiting"]
            /\ sem_waiters' = Append(sem_waiters, t)
            /\ UNCHANGED semaphore
       ELSE /\ \E r \in EnterProcessTopic(t, task, semaphore - 1) : SetTasks(r)
            /\ UNCHANGED sem_waiters
    /\ UNCHANGED <<main_pc, columns, notMainVars>>

\* task t was given a permit: acquire returns and process_topic starts
Resume(t) ==
    /\ main_pc = "gather"
    /\ task[t] = "woken"
    /\ sem_waiters' = SelectSeq(sem_waiters, LAMBDA u : u # t)
    /\ LET r == IF semaphore > 0 THEN wake_up_next(task, semaphore)
                ELSE [task |-> task, value |-> semaphore]
       IN  \E e \in EnterProcessTopic(t, r.task, r.value) : SetTasks(e)
    /\ UNCHANGED <<main_pc, columns, notMainVars>>

\* the pipeline of task t ran to its end: process_topic returns the
\* article and the permit is released
PipelineReturns(t) ==
    /\ main_pc = "gather"
    /\ task[t] = "running"
    /\ \A u \in Topics : task[u] # "scheduled"
    /\ SetTasks(release([task EXCEPT ![t] = "returned"], semaphore))
    /\ UNCHANGED <<sem_waiters, main_pc, columns, notMainVars>>

\* a step of the pipeline of task t raised: except Exception returns ""
\* and the permit is released
PipelineRaises(t) ==
    /\ main_pc = "gather"
    /\ task[t] = "running"
    /\ \A u \in Topics : task[u] # "scheduled"
    /\ SetTasks(release([task EXCEPT ![t] = "sentinel"], semaphore))
    /\ UNCHANGED <<sem_waiters, main_pc, columns, notMainVars>>

\* every task returned: gather returns and main logs its completion
GatherReturns ==
    /\ main_pc = "gather"
    /\ \A t \in Topics : task[t] \in {"returned", "sentinel"}
    /\ main_pc' = "completed"
    /\ UNCHANGED <<task, semaphore, sem_waiters, columns, notMainVars>>

\* a task raised: gather raises in main once main runs again, except
\* Exception logs the critical error, main returns and asyncio.run cancels
\* the tasks that are left
GatherRaises ==
    /\ main_pc = "gather"
    /\ \E t \in Topics : task[t] = "raised"
    /\ \A u \in Topics : task[u] # "scheduled"
    /\ main_pc' = "critical"
    /\ task' = [t \in Topics |->
                  IF task[t] \in {"waiting", "woken", "running"}
                  THEN "cancelled" ELSE task[t]]
    /\ UNCHANGED <<semaphore, sem_waiters, columns, notMainVars>>

NextMain ==
    \/ MakeTasks
    \/ \E t \in Topics : Begin(t)
    \/ \E t \in Topics : Resume(t)
    \/ \E t \in Topics : PipelineReturns(t)
    \/ \E t \in Topics : PipelineRaises(t)
    \/ GatherReturns
    \/ GatherRaises

SpecMain == InitMain /\ [][NextMain]_vars

\* the event loop runs a task that is ready, and every awaited step of a
\* pipeline ends
SpecMainFair == SpecMain /\ WF_vars(NextMain)

\* C21: an exception raised anywhere in process_topic is caught there: no
\* task ends with an exception, a task whose pipeline raised ends with the
\* failure sentinel, and gather never raises in main, so no sibling task
\* is cut off
C21_CaughtAtBoundary ==
    /\ \A t \in Topics : task[t] \notin {"raised", "cancelled"}
    /\ main_pc = "critical" => \A t \in Topics : task[t] = "none"

\* C22: at most MAX_CONCURRENT_TASKS tasks are in process_topic, the
\* permits held and the permits free add up to MAX_CONCURRENT_TASKS, and
\* every scheduled task eventually gets into process_topic
C22_BoundedAndEveryTopicRuns ==
    /\ [](main_pc = "gather" =>
            /\ Cardinality(InProcessTopic) <= MAX_CONCURRENT_TASKS
            /\ semaphore >= 0
            /\ semaphore + Cardinality({t \in Topics : task[t] \in {"running", "woken"}})
                  = MAX_CONCURRENT_TASKS)
    /\ \A t \in Topics :
          (task[t] = "scheduled")
              ~> (task[t] \in {"running", "returned", "sentinel", "raised"})

\* C22 witness: a task that had to wait, every permit being held by a
\* task in process_topic, has been handed the permit that a pipeline which
\* failed released, while the other permits are still held
C22_Witness ==
    /\ \E t \in Topics : t > MAX_CONCURRENT_TASKS /\ task[t] = "woken"
    /\ Cardinality({u \in 1..MAX_CONCURRENT_TASKS : task[u] = "sentinel"}) = 1
    /\ Cardinality({u \in 1..MAX_CONCURRENT_TASKS : task[u] = "running"})
          = MAX_CONCURRENT_TASKS - 1
    /\ semaphore = 0

-----------------------------------------------------------------------------
(* retry_with_backoff (src/src/utils.py)                                   *)

notRetryVars == <<cleanVars, extractVars, dedupVars, fetchVars, managerVars,
                  pipelineVars, mainVars, chunkVars>>

\* base_delay = 1.0 and max_delay = 16.0, in units of 1 / One
base_delay == One
max_delay == 16 * One

\* min(base_delay * (2 ** attempt) + random.uniform(0, 1), max_delay)
RetryDelay(a, jitter) ==
    IF BackoffDelay(a, jitter) < max_delay THEN BackoffDelay(a, jitter) ELSE max_delay

\* retry_with_backoff(func, max_retries, logger=...) is called
InitRetry ==
    /\ logger \in BOOLEAN
    /\ retry_max \in 1..MaxRetriesBackoff
    /\ retry_pc = "call"
    /\ retry_attempt = 0
    /\ func_calls = 0
    /\ retry_delay = 0
    /\ last_exc = 0
    /\ retry_outcome = "none"
    /\ IdleClean
    /\ IdleExtract
    /\ IdleDedup
    /\ IdleFetch
    /\ IdleManager
    /\ IdlePipeline
    /\ IdleMain
    /\ IdleChunk

\* response = await func(*args, **kwargs) returned: return response
FuncReturns ==
    /\ retry_pc = "call"
    /\ func_calls' = func_calls + 1
    /\ retry_outcome' = "returned"
    /\ retry_pc' = "done"
    /\ UNCHANGED <<logger, retry_max, retry_attempt, retry_delay, last_exc,
                   notRetryVars>>

\* await func(*args, **kwargs) raised its exception e: on the last attempt
\* e is raised again; before, the delay is computed and, with a logger,
\* the log line reads response, a local that no assignment has bound, which
\* raises UnboundLocalError out of the except clause; without a logger the
\* coroutine sleeps
FuncRaises ==
    /\ retry_pc = "call"
    /\ func_calls' = func_calls + 1
    /\ last_exc' = func_calls + 1
    /\ IF retry_attempt < retry_max - 1
       THEN \E jitter \in UniformJitter :
               IF logger
               THEN /\ retry_outcome' = "UnboundLocalError"
                    /\ retry_pc' = "done"
                    /\ UNCHANGED retry_delay
               ELSE /\ retry_delay' = RetryDelay(retry_attempt, jitter)
                    /\ retry_pc' = "sleep"
                    /\ UNCHANGED retry_outcome
       ELSE /\ retry_outcome' = "raised e"
            /\ retry_pc' = "done"
            /\ UNCHANGED retry_delay
    /\ UNCHANGED <<logger, retry_max, retry_attempt, notRetryVars>>

\* await asyncio.sleep(delay) is over: the next attempt
SleepEnds ==
    /\ retry_pc = "sleep"
    /\ retry_attempt' = retry_attempt + 1
    /\ retry_pc' = "call"
    /\ UNCHANGED <<logger, retry_max, func_calls, retry_delay, last_exc,
                   retry_outcome, notRetryVars>>

NextRetry == FuncReturns \/ FuncRaises \/ SleepEnds

SpecRetry == InitRetry /\ [][NextRetry]_vars

\* C23: retry_with_backoff ends by returning the result of the first call
\* of func that succeeded, or, after exactly max_retries failed calls, by
\* raising the exception of the last call; it sleeps after every failed call
\* but the last, for a delay of at most max_delay
C23_ReturnsOrRaisesLast ==
    /\ retry_delay <= max_delay
    /\ retry_pc = "sleep" => retry_delay >= base_delay
    /\ retry_pc = "done" =>
          \/ retry_outcome = "returned" /\ last_exc = func_calls - 1
          \/ /\ retry_outcome = "raised e"
             /\ func_calls = retry_max
             /\ last_exc = func_calls
    /\ (retry_pc = "call" /\ func_calls > 0) => retry_delay > 0

-----------------------------------------------------------------------------
(* integrate_uptodate_content (src/main.py), steps 4 and 5 of the loop over *)
(* the chunks: the references of a chunk get new numbers and the citations  *)
(* in the chunk's content are rewritten                                     *)

notChunkVars == <<cleanVars, extractVars, dedupVars, fetchVars, managerVars,
                  pipelineVars, mainVars, retryVars>>

\* t starts with old at position i
StartsWithAt(t, old, i) ==
    /\ i + Len(old) - 1 <= Len(t)
    /\ SubSeq(t, i, i + Len(old) - 1) = old

\* str.replace(old, new) from position i on: every occurrence of old, left
\* to right, not overlapping; old is not empty
RECURSIVE ReplaceFrom(_, _, _, _)
ReplaceFrom(t, old, new, i) ==
    IF i > Len(t) THEN <<>>
    ELSE IF StartsWithAt(t, old, i)
    THEN new \o ReplaceFrom(t, old, new, i + Len(old))
    ELSE <<t[i]>> \o ReplaceFrom(t, old, new, i + 1)

StrReplace(t, old, new) == ReplaceFrom(t, old, new, 1)

\* step 4: old_to_new_ref_map after the loop over the chunk's references,
\* the first new number being nxt; a later reference with the same old
\* number replaces the entry
RECURSIVE AssignNumbers(_, _, _)
AssignNumbers(refs, nxt, map) ==
    IF refs = <<>> THEN map
    ELSE AssignNumbers(Tail(refs), nxt + 1, Put(map, Head(refs), nxt))

\* str(old_to_new_ref_map.get(int(ref), ref))
MappedText(map, ref) ==
    IF IntOf(ref) \in DOMAIN map THEN StrOf(map[IntOf(ref)]) ELSE ref

\* sorted(set(texts), key=lambda x: int(x)): the lists it can return. The
\* sort is stable, so texts of equal value ("01" and "1") stay in the
\* order the set iterates them, which the hash seed of the process decides
RECURSIVE SortedByInt(_)
SortedByInt(S) ==
    IF S = {} THEN {<<>>}
    ELSE UNION {{<<x>> \o rest : rest \in SortedByInt(S \ {x})}
                : x \in {x \in S : \A y \in S : IntOf(x) <= IntOf(y)}}

\* the body of the loop over bracket_citations for one citation: the
\* contents it can leave
ReplaceCitation(content, map, citation) ==
    LET cits == extract_citations(<<"[">> \o citation \o <<"]">>)
        new_citations == {MappedText(map, cits[i]) : i \in DOMAIN cits}
    IN  IF cits = <<>> THEN {content}
        ELSE {StrReplace(content, <<"[">> \o citation \o <<"]">>,
                         <<"[">> \o Join(new_citations_sorted, <<",">>) \o <<"]">>)
              : new_citations_sorted \in SortedByInt(new_citations)}

\* step 5: the loop over bracket_citations, from content on: the contents
\* it can end with
RECURSIVE UpdateContent(_, _, _)
UpdateContent(content, map, bracket_citations) ==
    IF bracket_citations = <<>> THEN {content}
    ELSE UNION {UpdateContent(c, map, Tail(bracket_citations))
                : c \in ReplaceCitation(content, map, Head(bracket_citations))}

\* the bracketed spans of the content of a chunk
ChunkMarkers ==
    { <<"[", "1", "]">>, <<"[", "2", "]">>, <<"[", "3", "]">>,
      <<"[", "1", ",", "2", "]">>, <<"[", "1", "-", "2", "]">>,
      <<"[", "a", "]">>, <<"[", "0", "4", ",", "4", "]">> }

\* contents of a chunk: at most MaxChunkMarkers spans, a blank between them
ChunkContents ==
    UNION {{Join(ms, <<" ">>) : ms \in [1..n -> ChunkMarkers]} : n \in 1..MaxChunkMarkers}

\* the old reference numbers of the references parsed from a chunk
ChunkReferences == { <<1>>, <<1, 2>>, <<2, 1>>, <<1, 2, 3>> }

\* next_ref_number for an outline with no, one or two references
NextRefNumbers == {1, 2, 3}

InitChunk ==
    /\ chunk_content \in ChunkContents
    /\ chunk_refs \in ChunkReferences
    /\ next_ref_number \in NextRefNumbers
    /\ old_to_new_ref_map = <<>>
    /\ updated_content = <<>>
    /\ chunk_done = FALSE
    /\ IdleClean
    /\ IdleExtract
    /\ IdleDedup
    /\ IdleFetch
    /\ IdleManager
    /\ IdlePipeline
    /\ IdleMain
    /\ IdleRetry

\* one chunk goes through steps 4 and 5
ProcessChunk ==
    /\ ~chunk_done
    /\ old_to_new_ref_map' = AssignNumbers(chunk_refs, next_ref_number, <<>>)
    /\ next_ref_number' = next_ref_number + Len(chunk_refs)
    /\ updated_content' \in UpdateContent(chunk_content, old_to_new_ref_map',
                                          FindAllLazy(chunk_content, 1))
    /\ chunk_done' = TRUE
    /\ UNCHANGED <<chunk_content, chunk_refs, notChunkVars>>

NextChunk == ProcessChunk

SpecChunk == InitChunk /\ [][NextChunk]_vars

\* the numbers a bracketed span denotes
Denoted(span) ==
    LET cs == extract_citations(<<"[">> \o span \o <<"]">>)
    IN  {IntOf(cs[i]) : i \in DOMAIN cs}

\* the new number of an old number: that of the map, or the number itself
MapOnce(n) == IF n \in DOMAIN old_to_new_ref_map THEN old_to_new_ref_map[n] ELSE n

\* C29: after a chunk is renumbered its content has the spans it had, and
\* every span denotes the new numbers of the numbers it denoted before:
\* each number went through old_to_new_ref_map once
C29_SimultaneousSubstitution ==
    chunk_done =>
        LET before == FindAllLazy(chunk_content, 1)
            after == FindAllLazy(updated_content, 1)
        IN  /\ Len(after) = Len(before)
            /\ \A i \in DOMAIN before :
                  Denoted(after[i]) = {MapOnce(n) : n \in Denoted(before[i])}

-----------------------------------------------------------------------------
(* The walks and the steps of clean_references, under SpecClean            *)

\* the numbers extract_citations finds in the text fields outside the
\* References section
ExtractedOutside(d) ==
    UNION { LET cs == extract_citations(ContentTexts(d)[f])
            IN  {IntOf(cs[i]) : i \in DOMAIN cs}
            : f \in 1..Len(ContentTexts(d)) }

\* C24: the numbers clean_references collects in step 1 are the union of
\* extract_citations over the text fields outside the References section,
\* the numbers of a range a-b included
C24_CollectsUnionOfExtract ==
    calls >= 1 => identify_all_inline_citations(orig) = ExtractedOutside(orig)

\* the strings identify_all_inline_citations._recursive_process reads for
\* citations, each named by the keys and list positions that lead to it
RECURSIVE IdentifyReads(_, _, _)
IdentifyReads(item, in_references_section, path) ==
    CASE item.k = "str" ->
           IF in_references_section THEN {} ELSE {path}
      [] item.k = "dict" ->
           UNION {IdentifyReads(item.vals[i], HasKey(item, "references"),
                                Append(path, item.keys[i]))
                  : i \in 1..Len(item.vals)}
      [] item.k = "list" ->
           UNION {IdentifyReads(item.vals[i], in_references_section,
                                Append(path, Digits[i + 1]))
                  : i \in 1..Len(item.vals)}
      [] OTHER -> {}

\* the strings remove_inline_citations._recursive_process rewrites
RECURSIVE RemoveRewrites(_, _, _)
RemoveRewrites(item, in_references_section, path) ==
    CASE item.k = "str" ->
           IF in_references_section THEN {} ELSE {path}
      [] item.k = "dict" ->
           IF HasKey(item, "references")
           THEN UNION {RemoveRewrites(item.vals[i], item.keys[i] = "references",
                                      Append(path, item.keys[i]))
                       : i \in 1..Len(item.vals)}
           ELSE UNION {RemoveRewrites(item.vals[i], in_references_section,
                                      Append(path, item.keys[i]))
                       : i \in 1..Len(item.vals)}
      [] item.k = "list" ->
           UNION {RemoveRewrites(item.vals[i], in_references_section,
                                 Append(path, Digits[i + 1]))
                  : i \in 1..Len(item.vals)}
      [] OTHER -> {}

\* the strings update_inline_citations._recursive_process rewrites
RECURSIVE UpdateRewrites(_, _, _)
UpdateRewrites(item, in_references_section, path) ==
    CASE item.k = "str" ->
           IF in_references_section THEN {} ELSE {path}
      [] item.k = "dict" ->
           IF HasKey(item, "references")
           THEN UNION {UpdateRewrites(item.vals[i], item.keys[i] = "references",
                                      Append(path, item.keys[i]))
                       : i \in 1..Len(item.vals)}
           ELSE UNION {UpdateRewrites(item.vals[i], in_references_section,
                                      Append(path, item.keys[i]))
                       : i \in 1..Len(item.vals)}
      [] item.k = "list" ->
           UNION {UpdateRewrites(item.vals[i], in_references_section,
                                 Append(path, Digits[i + 1]))
                  : i \in 1..Len(item.vals)}
      [] OTHER -> {}

\* C25: no number in a string of a Reference Item is counted as an inline
\* citation, no walk takes a string under the References section for
\* content, and the three walks take the same strings for content
C25_ReferencesSubtreeExcluded ==
    calls >= 1 =>
        /\ identify_all_inline_citations(orig)
              \subseteq UNION {ExtractCitationsFromText(ContentTexts(orig)[f])
                               : f \in 1..Len(ContentTexts(orig))}
        /\ \A p \in IdentifyReads(orig, FALSE, <<>>) : p[1] # "references"
        /\ IdentifyReads(orig, FALSE, <<>>) = RemoveRewrites(orig, FALSE, <<>>)
        /\ RemoveRewrites(orig, FALSE, <<>>) = UpdateRewrites(orig, FALSE, <<>>)

\* the orphaned and the bad numbers of steps 2 and 4, as the engine
\* computes them
Offending(d) ==
    (identify_all_inline_citations(d)
        \ get_all_reference_numbers(
              IF HasKey(d, "references") THEN Item(d, "references")
              ELSE JDict(<<>>, <<>>)))
    \cup get_bad_references(d)

\* a marker after pruning, as claimed: its tokens whose number is not
\* offending, in their order, and no marker if no token is left
PrunedMarker(inner, offending) ==
    LET parts == Split(inner, ",")
        tokens == [i \in 1..Len(parts) |-> Strip(parts[i])]
        left == SelectTexts(tokens,
                    [i \in 1..Len(parts) |->
                        ~(IsDigit(tokens[i]) /\ IntOf(tokens[i]) \in offending)])
    IN  IF left = <<>> THEN <<>>
        ELSE <<"[">> \o Join(left, <<",">>) \o <<"]">>

\* a text after pruning, as claimed
PrunedText(t, offending) ==
    LET segs == Segments(t, 1)
    IN  Concat([i \in 1..Len(segs) |->
                   IF segs[i].m THEN PrunedMarker(segs[i].s, offending)
                   ELSE segs[i].s])

\* C26: after the pruning steps every marker holds exactly its tokens
\* whose number is neither orphaned nor bad, in their order, and a marker
\* is gone if and only if none of its tokens is left
C26_OnlyOffendingTokensDeleted ==
    calls >= 1 =>
        \A f \in 1..Len(ContentTexts(orig)) :
            ContentTexts(PruneReferences(orig))[f]
                = PrunedText(ContentTexts(orig)[f], Offending(orig))

\* C27: every Reference Item of the input that lacks no required field and
\* whose number a marker outside the References section denotes, as a
\* token or inside a range, is in the output
C27_CitedWellFormedItemsKept ==
    calls >= 1 =>
        \A i \in 1..Len(RefItems(orig)) :
            (/\ ~IsBadItem(RefItems(orig)[i])
             /\ NumberOf(RefItems(orig)[i]) \in CitedNumbers(orig))
            => \E j \in 1..Len(RefItems(first)) :
                  Item(RefItems(first)[j], "url_doi")
                      = Item(RefItems(orig)[i], "url_doi")

\* C28: the remap of step 5 maps the numbers of the items that are left
\* one to one onto 1..k, in their order, and every integer token that is
\* left and denotes such a number n is rewritten in its place to the new
\* number of the items that had the number n
C28_RenumberingKeepsBinding ==
    calls >= 1 =>
        LET pruned == PruneReferences(orig)
            remap == create_remap_dictionary(pruned)
            left == DeclaredNumbers(pruned)
        IN  /\ DOMAIN remap = left
            /\ {remap[n] : n \in left} = 1..Len(RefItems(pruned))
            /\ \A a, b \in left : a < b => remap[a] < remap[b]
            /\ \A f \in 1..Len(ContentTexts(pruned)) :
                  \A x \in SpanTokens(ContentTexts(pruned)[f]) :
                      (IsDigit(x.tok) /\ IntOf(x.tok) \in left) =>
                          \E y \in SpanTokens(ContentTexts(first)[f]) :
                              /\ y.pos = x.pos
                              /\ IsDigit(y.tok)
                              /\ \A j \in 1..Len(RefItems(first)) :
                                    OldNumber(RefItems(first)[j]) = IntOf(x.tok)
                                        => NumberOf(RefItems(first)[j]) = IntOf(y.tok)

-----------------------------------------------------------------------------
(* Progress of the callers of query that contend for the throttle lock     *)

\* two callers, each with one query, through one client or through two;
\* the search finds two papers, and the batch answers the first of them
\* with its details, with null, or not at all
InitContend ==
    /\ \E second \in Clients :
          InitCallers([c \in Callers |-> IF c = "c1" THEN "s1" ELSE second],
                      MaxRetriesThrottle,
                      [c \in Callers |-> <<Query("A")>>])
    /\ search_body = <<"p1", "p2">>
    /\ catalog \in Catalogs
    /\ catalog["p2"].citationCount > min_citation_count

\* the steps of caller c
CallerStep(c) ==
    \/ QueryLoop(c)
    \/ Acquire(c)
    \/ Critical(c)
    \/ ThrottleWake(c)
    \/ Respond200(c)
    \/ RespondFailure(c)
    \/ RespondTimeout(c)
    \/ BackoffWake(c)
    \/ Exhausted(c)
    \/ Continue(c)

\* the event loop runs every coroutine that is ready (each of its steps
\* moves the caller's position), pending sleeps run down, and every HTTP
\* attempt ends
SpecContend ==
    /\ InitContend
    /\ [][NextFetch]_vars
    /\ WF_timer(Tick)
    /\ \A c \in Callers : WF_pc(CallerStep(c))

\* C30: a caller that waits for the throttle lock, or holds it, eventually
\* dispatches its request, and, if no HTTP attempt is cut off by a timeout,
\* every call of query eventually returns
C30_EveryCallerDispatchesAndReturns ==
    /\ \A c \in Callers :
          (pc[c] \in {"waiting", "locked", "throttled"}) ~> (pc[c] = "inflight")
    /\ [](\A c \in Callers : outcome[c] # "TimeoutError")
          => \A c \in Callers : <>(pc[c] = "done" /\ outcome[c] = "returned")

=============================================================================
